---- MODULE Spec2Model ----
(***************************************************************************)
(* Model of the Gemns IoT serial gateway coordinator                       *)
(* (custom_components/gemns_iot/zigbee_coordinator.py) and of the part of  *)
(* the device registry it drives (device_management.py).                   *)
(*                                                                         *)
(* Text is a sequence of one-character strings.  Python integers are       *)
(* unbounded; they are kept as sign + two limbs in base 2^16 so that the   *)
(* 32-bit mask of the parser can be computed on values above 2^31.         *)
(***************************************************************************)
EXTENDS Integers, Naturals, Sequences, FiniteSets, TLC

(***************************************************************************)
(* Characters and character classes of Python's re module and str.strip   *)
(***************************************************************************)
DigitSeq == <<"0", "1", "2", "3", "4", "5", "6", "7", "8", "9">>
DigitChars == {DigitSeq[i] : i \in 1..10}
LowerSeq == <<"a", "b", "c", "d", "e", "f", "g", "h", "i", "j", "k", "l", "m",
              "n", "o", "p", "q", "r", "s", "t", "u", "v", "w", "x", "y", "z">>
UpperSeq == <<"A", "B", "C", "D", "E", "F", "G", "H", "I", "J", "K", "L", "M",
              "N", "O", "P", "Q", "R", "S", "T", "U", "V", "W", "X", "Y", "Z">>
LowerChars == {LowerSeq[i] : i \in 1..26}
UpperChars == {UpperSeq[i] : i \in 1..26}
\* \w, \d and \s of the regular expressions
WordChars == DigitChars \cup LowerChars \cup UpperChars \cup {"_"}
SpaceChars == {" ", "\t", "\r", "\n"}

DigitVal(c) == CHOOSE v \in 0..9 : DigitSeq[v + 1] = c

(***************************************************************************)
(* Python int: sign and magnitude hi * 2^16 + lo                           *)
(***************************************************************************)
Limb == 2 ^ 16

PyInt(k) == [neg |-> k < 0,
             hi |-> (IF k < 0 THEN -k ELSE k) \div Limb,
             lo |-> (IF k < 0 THEN -k ELSE k) % Limb]

\* None, for a value that is otherwise a Python int or a dict
None == [none |-> TRUE]

\* int(s) for a string of decimal digits
RECURSIVE IntAcc(_, _)
IntAcc(n, ds) ==
    IF ds = <<>> THEN n
    ELSE LET t == n.lo * 10 + DigitVal(Head(ds))
         IN  IntAcc([neg |-> FALSE, hi |-> n.hi * 10 + t \div Limb, lo |-> t % Limb],
                    Tail(ds))

int(ds) == IntAcc(PyInt(0), ds)

\* the decimal digits of a magnitude
RECURSIVE DecDigits(_)
DecDigits(n) ==
    LET r == n.hi % 10
        t == r * Limb + n.lo
        q == [neg |-> FALSE, hi |-> n.hi \div 10, lo |-> t \div 10]
    IN  IF n.hi = 0 /\ n.lo < 10 THEN <<DigitSeq[n.lo + 1]>>
        ELSE DecDigits(q) \o <<DigitSeq[(t % 10) + 1]>>

\* str(n), what an f-string prints for an int
str(n) == IF n.neg THEN <<"-">> \o DecDigits(n) ELSE DecDigits(n)

\* n & 0xFFFFFFFF (two's complement for a negative n)
BitAnd32(n) ==
    LET h == n.hi % Limb
    IN  IF ~n.neg THEN [neg |-> FALSE, hi |-> h, lo |-> n.lo]
        ELSE IF h = 0 /\ n.lo = 0 THEN PyInt(0)
        ELSE IF n.lo = 0 THEN [neg |-> FALSE, hi |-> Limb - h, lo |-> 0]
        ELSE [neg |-> FALSE, hi |-> Limb - 1 - h, lo |-> Limb - n.lo]

\* max(0, n): the upper limit left out
ClampBelow(n) == IF n.neg THEN PyInt(0) ELSE n

\* max(0, min(255, n))
Clamp255(n) ==
    IF n.neg THEN PyInt(0)
    ELSE IF n.hi > 0 \/ n.lo > 255 THEN PyInt(255)
    ELSE n

(***************************************************************************)
(* str methods                                                             *)
(***************************************************************************)
RECURSIVE lstrip(_)
lstrip(s) == IF s # <<>> /\ Head(s) \in SpaceChars THEN lstrip(Tail(s)) ELSE s

RECURSIVE rstrip(_)
rstrip(s) ==
    IF s # <<>> /\ s[Len(s)] \in SpaceChars THEN rstrip(SubSeq(s, 1, Len(s) - 1)) ELSE s

strip(s) == rstrip(lstrip(s))

startswith(s, p) == Len(s) >= Len(p) /\ SubSeq(s, 1, Len(p)) = p

ToLower(c) == IF c \in UpperChars
              THEN LowerSeq[CHOOSE i \in 1..26 : UpperSeq[i] = c] ELSE c

ToUpper(c) == IF c \in LowerChars
              THEN UpperSeq[CHOOSE i \in 1..26 : LowerSeq[i] = c] ELSE c

lower(s) == [i \in 1..Len(s) |-> ToLower(s[i])]

\* str.title(): the first letter of every run of letters in upper case
title(s) == [i \in 1..Len(s) |->
               IF i = 1 \/ s[i - 1] \notin (LowerChars \cup UpperChars)
               THEN ToUpper(s[i]) ELSE ToLower(s[i])]

\* the position of the first occurrence of sep in s at or after i, 0 if none
FindFrom(s, sep, i) ==
    LET found == {k \in i..(Len(s) - Len(sep) + 1) : SubSeq(s, k, k + Len(sep) - 1) = sep}
    IN  IF found = {} THEN 0 ELSE CHOOSE k \in found : \A j \in found : k <= j

find(s, sep) == FindFrom(s, sep, 1)

(***************************************************************************)
(* bytes.decode('utf-8', errors='ignore').  A byte below 0x80 is written   *)
(* as its character; LeadByte is the first byte (0xC3) and ContByte the    *)
(* second byte (0xA9) of the two-byte character WideChar (U+00E9).  A lead *)
(* byte without its continuation, and a continuation byte without its      *)
(* lead, are ignored.                                                      *)
(***************************************************************************)
LeadByte == "C3"
ContByte == "A9"
WideChar == "U+00E9"

\* a lead byte with its continuation byte makes WideChar; a lead byte without
\* one and a continuation byte without a lead byte are ignored
decode(bs) ==
    LET Decodes(i) == \/ bs[i] \notin {LeadByte, ContByte}
                      \/ bs[i] = ContByte /\ i > 1 /\ bs[i - 1] = LeadByte
        at == SelectSeq([i \in 1..Len(bs) |-> i], Decodes)
    IN  [k \in 1..Len(at) |-> IF bs[at[k]] = ContByte THEN WideChar ELSE bs[at[k]]]

(***************************************************************************)
(* re.match for the two patterns of the parser.  Both are a literal "+"    *)
(* followed by runs of one character class each; neighbouring classes are  *)
(* disjoint, so the greedy match is the only candidate and backtracking    *)
(* never finds another.                                                    *)
(***************************************************************************)
\* the end of the longest run of class cls starting at position i
RECURSIVE RunEnd(_, _, _)
RunEnd(s, i, cls) ==
    IF i <= Len(s) /\ s[i] \in cls THEN RunEnd(s, i + 1, cls) ELSE i

\* items: <<class, least length>>; the result holds the text of every item
RECURSIVE MatchRuns(_, _, _)
MatchRuns(s, i, items) ==
    IF items = <<>> THEN [ok |-> TRUE, runs |-> <<>>, end |-> i]
    ELSE LET e == RunEnd(s, i, Head(items)[1])
         IN  IF e - i < Head(items)[2] THEN [ok |-> FALSE, runs |-> <<>>, end |-> i]
             ELSE LET r == MatchRuns(s, e, Tail(items))
                  IN  [ok |-> r.ok, runs |-> <<SubSeq(s, i, e - 1)>> \o r.runs,
                       end |-> r.end]

(***************************************************************************)
(* Protocol constants                                                      *)
(***************************************************************************)
ZIGBEE_CMD_PREFIX == <<"$", "A", "T">>
ZIGBEE_CMD_ADD == <<"a", "d", "d">>
ZIGBEE_CMD_DEL == <<"d", "e", "l">>
ZIGBEE_CMD_STATE == <<"s", "t", "a", "t", "e">>
ZIGBEE_CMD_PAIR == <<"p", "a", "i", "r">>
ZIGBEE_DEVICE_BULB == <<"b", "u", "l", "b">>
ZIGBEE_DEVICE_SWITCH == <<"s", "w", "i", "t", "c", "h">>
SERIAL_LINE_ENDING == <<"\r", "\n">>
SW == <<"s", "w">>

\* a text that is None or empty: the code tests such a value for truth only
NoText == <<>>

\* an empty dict
EmptyDict == [k \in {} |-> None]

\* d.get(k): the value, or None
Get(d, k) == IF k \in DOMAIN d THEN d[k] ELSE None

\* d.update(e)
update(d, e) == e @@ d

(***************************************************************************)
(* ZigbeeCommandParser.parse_command                                       *)
(***************************************************************************)
\* a versioned pattern that matches no line
pattern_new_never(s) == [ok |-> FALSE, group |-> <<>>]

\* r'\+(\w+)\s+(\w+)\s+(\d+)\s+(\d+)\s+(\d+)(?:\s+(\d+))?'
\* A group that did not take part is the empty text (falsy, as None is).
pattern_new(s) ==
    LET m == MatchRuns(s, 2, << <<WordChars, 1>>, <<SpaceChars, 1>>,
                                <<WordChars, 1>>, <<SpaceChars, 1>>,
                                <<DigitChars, 1>>, <<SpaceChars, 1>>,
                                <<DigitChars, 1>>, <<SpaceChars, 1>>,
                                <<DigitChars, 1>> >>)
        o == MatchRuns(s, m.end, << <<SpaceChars, 1>>, <<DigitChars, 1>> >>)
    IN  IF s # <<>> /\ s[1] = "+" /\ m.ok
        THEN [ok |-> TRUE,
              group |-> <<m.runs[1], m.runs[3], m.runs[5], m.runs[7], m.runs[9],
                          IF o.ok THEN o.runs[2] ELSE <<>> >>]
        ELSE [ok |-> FALSE, group |-> <<>>]

\* r'\+(\w+)\s+(\w+)\s+(\d+)\s+(\d+)\s*(\d*)\s*(\d*)'
pattern_old(s) ==
    LET m == MatchRuns(s, 2, << <<WordChars, 1>>, <<SpaceChars, 1>>,
                                <<WordChars, 1>>, <<SpaceChars, 1>>,
                                <<DigitChars, 1>>, <<SpaceChars, 1>>,
                                <<DigitChars, 1>>, <<SpaceChars, 0>>,
                                <<DigitChars, 0>>, <<SpaceChars, 0>>,
                                <<DigitChars, 0>> >>)
    IN  IF s # <<>> /\ s[1] = "+" /\ m.ok
        THEN [ok |-> TRUE,
              group |-> <<m.runs[1], m.runs[3], m.runs[5], m.runs[7], m.runs[9],
                          m.runs[11]>>]
        ELSE [ok |-> FALSE, group |-> <<>>]

\* the versioned STATE grammar that takes a brightness of 0 for none
parse_new_format_nonzero(g) ==
    LET length == int(g[3])
        supports_brightness == (length = PyInt(4))
        result == [command |-> g[1],
                   device_type |-> IF g[2] = SW THEN ZIGBEE_DEVICE_SWITCH ELSE g[2],
                   length |-> length,
                   device_id |-> BitAnd32(int(g[4])),
                   cmd_type |-> int(g[5]),
                   supports_brightness |-> supports_brightness]
    IN  IF supports_brightness /\ g[6] # <<>> /\ int(g[6]) # PyInt(0)
        THEN update(result, [brightness |-> Clamp255(int(g[6]))])
        ELSE result

\* the result of the versioned STATE grammar (lines 68-108)
parse_new_format(g) ==
    LET length == int(g[3])
        supports_brightness == (length = PyInt(4))
        result == [command |-> g[1],
                   device_type |-> IF g[2] = SW THEN ZIGBEE_DEVICE_SWITCH ELSE g[2],
                   length |-> length,
                   device_id |-> BitAnd32(int(g[4])),
                   cmd_type |-> int(g[5]),
                   supports_brightness |-> supports_brightness]
    IN  IF supports_brightness /\ g[6] # <<>>
        THEN update(result, [brightness |-> Clamp255(int(g[6]))])
        ELSE result

\* the result of the legacy grammar (lines 118-143)
parse_old_format(g) ==
    LET result == [command |-> g[1],
                   device_type |-> g[2],
                   length |-> int(g[3]),
                   type |-> int(g[4])]
        with_id == IF g[5] # <<>>
                   THEN update(result, [device_id |-> int(g[5])]) ELSE result
    IN  IF g[6] # <<>>
        THEN update(with_id, [brightness |-> Clamp255(int(g[6]))])
        ELSE with_id

\* parse_command that takes the versioned grammar for every command token
parse_command_all_versioned(text) ==
    LET line == strip(text)
        line_suffix == strip(SubSeq(line, Len(ZIGBEE_CMD_PREFIX) + 1, Len(line)))
        Old(mo) == IF ~mo.ok THEN None ELSE parse_old_format(mo.group)
        New(mn) ==
            IF mn.ok THEN parse_new_format(mn.group)
            ELSE Old(pattern_old(line_suffix))
    IN  IF ~startswith(line, ZIGBEE_CMD_PREFIX) THEN None
        ELSE New(pattern_new(line_suffix))

\* ZigbeeCommandParser.parse_command, lines 51-143
parse_command(text) ==
    LET line == strip(text)
        line_suffix == strip(SubSeq(line, Len(ZIGBEE_CMD_PREFIX) + 1, Len(line)))
        Old(mo) == IF ~mo.ok THEN None ELSE parse_old_format(mo.group)
        New(mn) ==
            IF mn.ok /\ mn.group[1] = ZIGBEE_CMD_STATE THEN parse_new_format(mn.group)
            ELSE Old(pattern_old(line_suffix))
    IN  IF ~startswith(line, ZIGBEE_CMD_PREFIX) THEN None
        ELSE New(pattern_new(line_suffix))

(***************************************************************************)
(* ZigbeeCommandParser.build_command                                       *)
(***************************************************************************)
\* what an f-string prints for a device_id: an int, or None
Fmt(v) == IF v = None THEN <<"N", "o", "n", "e">> ELSE str(v)

Sp == <<" ">>

\* the STATE line written with length 3 although a brightness was given
build_state_short(command, device_type, device_id, state, brightness) ==
    ZIGBEE_CMD_PREFIX \o <<"+">> \o command \o Sp \o device_type \o Sp
        \o str(PyInt(3)) \o Sp \o Fmt(device_id) \o Sp
        \o str(PyInt(IF state THEN 1 ELSE 0))
        \o (IF brightness # None THEN Sp \o str(Clamp255(brightness)) ELSE <<>>)
        \o SERIAL_LINE_ENDING

\* lines 162-177
build_state(command, device_type, device_id, state, brightness) ==
    LET state_value == IF state THEN 1 ELSE 0
    IN  IF brightness # None
        THEN ZIGBEE_CMD_PREFIX \o <<"+">> \o command \o Sp \o device_type \o Sp
                 \o str(PyInt(4)) \o Sp \o Fmt(device_id) \o Sp
                 \o str(PyInt(state_value)) \o Sp \o str(Clamp255(brightness))
                 \o SERIAL_LINE_ENDING
        ELSE ZIGBEE_CMD_PREFIX \o <<"+">> \o command \o Sp \o device_type \o Sp
                 \o str(PyInt(3)) \o Sp \o Fmt(device_id) \o Sp
                 \o str(PyInt(state_value)) \o SERIAL_LINE_ENDING

\* build_command with the type code of a bulb for every class
build_command_one_code(command, device_type, device_id, state, brightness) ==
    IF command = ZIGBEE_CMD_PAIR
    THEN ZIGBEE_CMD_PREFIX \o <<"+">> \o command \o SERIAL_LINE_ENDING
    ELSE IF command = ZIGBEE_CMD_ADD
    THEN ZIGBEE_CMD_PREFIX \o <<"+">> \o command \o Sp \o device_type \o Sp
             \o str(PyInt(2)) \o Sp \o str(PyInt(2)) \o Sp
             \o Fmt(device_id) \o SERIAL_LINE_ENDING
    ELSE IF command = ZIGBEE_CMD_DEL
    THEN ZIGBEE_CMD_PREFIX \o <<"+">> \o command \o Sp \o device_type \o Sp
             \o str(PyInt(1)) \o Sp \o str(PyInt(2)) \o SERIAL_LINE_ENDING
    ELSE IF command = ZIGBEE_CMD_STATE
    THEN build_state(command, device_type, device_id, state, brightness)
    ELSE <<>>

\* ZigbeeCommandParser.build_command, lines 145-179
build_command(command, device_type, device_id, state, brightness) ==
    LET type_code == IF device_type = ZIGBEE_DEVICE_BULB THEN 2 ELSE 3
    IN  IF command = ZIGBEE_CMD_PAIR
        THEN ZIGBEE_CMD_PREFIX \o <<"+">> \o command \o SERIAL_LINE_ENDING
        ELSE IF command = ZIGBEE_CMD_ADD
        THEN ZIGBEE_CMD_PREFIX \o <<"+">> \o command \o Sp \o device_type \o Sp
                 \o str(PyInt(2)) \o Sp \o str(PyInt(type_code)) \o Sp
                 \o Fmt(device_id) \o SERIAL_LINE_ENDING
        ELSE IF command = ZIGBEE_CMD_DEL
        THEN ZIGBEE_CMD_PREFIX \o <<"+">> \o command \o Sp \o device_type \o Sp
                 \o str(PyInt(1)) \o Sp \o str(PyInt(type_code)) \o SERIAL_LINE_ENDING
        ELSE IF command = ZIGBEE_CMD_STATE
        THEN build_state(command, device_type, device_id, state, brightness)
        ELSE <<>>

(***************************************************************************)
(* Constants imported from const.py                                        *)
(***************************************************************************)
DEVICE_CATEGORY_LIGHT == "light"
DEVICE_CATEGORY_SWITCH == "switch"
DEVICE_STATUS_CONNECTED == "connected"
DEVICE_STATUS_OFFLINE == "offline"
DEVICE_TYPE_ZIGBEE == "zigbee"
SIGNAL_DEVICE_ADDED == "device_added"
SIGNAL_DEVICE_UPDATED == "device_updated"

(***************************************************************************)
(* The world the event handlers work on.  Python dicts are objects: the    *)
(* index and the Registry hold references into a heap, so that two names   *)
(* for one dict (and one property bag shared by two dicts) behave as in    *)
(* Python.                                                                 *)
(*   idx      ZigbeeCoordinator._devices      address -> reference         *)
(*   reg      GemnsDeviceManager.devices      device key -> reference      *)
(*   heap     the dicts                                                    *)
(*   created  GemnsDeviceManager._created_entities                         *)
(*   signals  what async_dispatcher_send has sent, in order                *)
(*   hq       coroutines handed to hass.async_create_task, not yet run     *)
(*   event    the last line whose handling has ended: what was parsed, how *)
(*            it ended, the stores before and after                        *)
(*   nev      lines handed to _handle_serial_message so far                *)
(*   dispatched  those lines, in order                                     *)
(*   now      the clock, datetime.now(UTC)                                 *)
(***************************************************************************)
Alloc(w, d) == [w EXCEPT !.heap = Append(@, d)]

\* async_dispatcher_send(hass, signal, device_data); ev is the line being
\* handled (0: sent from a task of the registry)
Send(w, signal, ref, ev) ==
    [w EXCEPT !.signals = Append(@, [signal |-> signal,
                                     device_id |-> w.heap[ref].device_id,
                                     ev |-> ev])]

\* f"zigbee_{device_type}_{device_id}"
DeviceManagerId(device_type, device_id) ==
    <<"z", "i", "g", "b", "e", "e", "_">> \o device_type \o <<"_">> \o str(device_id)

\* f"Zigbee {device_type.title()} {device_id}"
DeviceName(device_type, device_id) ==
    <<"Z", "i", "g", "b", "e", "e", " ">> \o title(device_type) \o <<" ">> \o str(device_id)

(***************************************************************************)
(* GemnsDeviceManager                                                      *)
(***************************************************************************)
\* _async_notify_device_added
NotifyDeviceAdded(w, ref, ev) == Send(w, SIGNAL_DEVICE_ADDED, ref, ev)

\* a notification that announces the entity but sends no update
NotifyDeviceUpdateSilent(w, ref, ev) ==
    LET device_id == w.heap[ref].device_id
    IN  IF device_id \notin w.created
        THEN Send([w EXCEPT !.created = @ \cup {device_id}], SIGNAL_DEVICE_ADDED, ref, ev)
        ELSE w

\* _async_notify_device_update
NotifyDeviceUpdate(w, ref, ev) ==
    LET w1 == Send(w, SIGNAL_DEVICE_UPDATED, ref, ev)
        device_id == w.heap[ref].device_id
    IN  IF device_id \notin w.created
        THEN Send([w1 EXCEPT !.created = @ \cup {device_id}], SIGNAL_DEVICE_ADDED, ref, ev)
        ELSE w1

\* add_device that leaves the Registry as it is until _save_devices returns
AddDeviceBeginUnfiled(w, data) ==
    LET d == w.heap[data]
        w1 == Alloc(w, IF "properties" \in DOMAIN d THEN w.heap[d.properties] ELSE EmptyDict)
        w2 == Alloc(w1, [d EXCEPT !.properties = Len(w1.heap)])
    IN  [w |-> w2, ref |-> Len(w2.heap), existing |-> FALSE]

\* add_device up to its await of _save_devices (lines 62-95); device_data is
\* a dict of the caller.  The result names the registry's dict and the branch.
AddDeviceBegin(w, data) ==
    LET d == w.heap[data]
        device_id == d.device_id
    IN  IF device_id \in DOMAIN w.reg
        THEN [w |-> [w EXCEPT !.heap[w.reg[device_id]] =
                                  update(update(@, d), [last_seen |-> w.now])],
              ref |-> w.reg[device_id], existing |-> TRUE]
        ELSE LET props == IF "properties" \in DOMAIN d
                          THEN w.heap[d.properties] ELSE EmptyDict
                 w1 == Alloc(w, props)
                 device == [device_id |-> device_id,
                            device_type |-> d.device_type,
                            category |-> d.category,
                            name |-> d.name,
                            zigbee_id |-> d.zigbee_id,
                            ble_discovery_mode |-> "v0_manual",
                            status |-> d.status,
                            last_seen |-> w.now,
                            created_manually |-> FALSE,
                            properties |-> Len(w1.heap)]
                 w2 == Alloc(w1, device)
             IN  [w |-> [w2 EXCEPT !.reg = (device_id :> Len(w2.heap)) @@ @],
                  ref |-> Len(w2.heap), existing |-> FALSE]

\* add_device after _save_devices has returned (lines 75-78, 97-102)
AddDeviceEnd(w, ref, existing) ==
    [w EXCEPT !.hq = Append(@, [notify |-> IF existing THEN "update" ELSE "added",
                                ref |-> ref])]

(***************************************************************************)
(* What an observer sees of the two stores: every dict with its property   *)
(* bag read through, and the references (two names for one dict are equal  *)
(* references).                                                            *)
(***************************************************************************)
Resolve(w, ref) ==
    LET d == w.heap[ref]
    IN  IF "properties" \in DOMAIN d
        THEN [d EXCEPT !["properties"] = w.heap[d.properties]] ELSE d

View(w) == [idx |-> [a \in DOMAIN w.idx |-> Resolve(w, w.idx[a])],
            reg |-> [k \in DOMAIN w.reg |-> Resolve(w, w.reg[k])],
            iref |-> w.idx,
            rref |-> w.reg,
            created |-> w.created]

\* the handling of line n has ended with result res
EndEvent(w, n, parsed, pre, res) ==
    [w EXCEPT !.event = [n |-> n, parsed |-> parsed, res |-> res,
                         pre |-> pre, post |-> View(w), at |-> w.now]]

NoFrame == [handler |-> "none"]

\* a handler that has ended without suspending
Ended(w) == [w |-> w, st |-> "return", frame |-> NoFrame]

\* a discard that empties the index
DiscardForgetting(w, n, parsed) ==
    Ended(EndEvent([w EXCEPT !.idx = EmptyDict], n, parsed, View(w), "discarded"))

\* lines 396-398 and 461-463: a command without device_id is logged and
\* dropped
Discard(w, n, parsed) == Ended(EndEvent(w, n, parsed, View(w), "discarded"))

(***************************************************************************)
(* ZigbeeCoordinator._handle_add_device                                    *)
(***************************************************************************)
\* lines 403-414: the address is in the index
AddKnownInIndex(w, device_id, device_manager_id) ==
    LET data == w.idx[device_id]
        w1 == [w EXCEPT !.heap[data] =
                   update(@, [zigbee_id |-> device_id,
                              device_type |-> DEVICE_TYPE_ZIGBEE,
                              status |-> DEVICE_STATUS_CONNECTED])]
    IN  IF device_manager_id \in DOMAIN w1.reg
        THEN [w1 EXCEPT !.heap[w1.reg[device_manager_id]] = update(@, w1.heap[data])]
        ELSE w1

\* the index is given a copy of the Registry's dict
AddKnownInRegistryCopied(w, device_id, device_manager_id) ==
    LET w1 == Alloc(w, update(w.heap[w.reg[device_manager_id]],
                              [zigbee_id |-> device_id,
                               device_type |-> DEVICE_TYPE_ZIGBEE,
                               status |-> DEVICE_STATUS_CONNECTED]))
    IN  [w1 EXCEPT !.idx = (device_id :> Len(w1.heap)) @@ @]

\* lines 416-425: the key is in the Registry only
AddKnownInRegistry(w, device_id, device_manager_id) ==
    LET data == w.reg[device_manager_id]
    IN  [w EXCEPT !.heap[data] =
                      update(@, [zigbee_id |-> device_id,
                                 device_type |-> DEVICE_TYPE_ZIGBEE,
                                 status |-> DEVICE_STATUS_CONNECTED]),
                  !.idx = (device_id :> data) @@ @]

\* lines 427-441: a new dict, entered in the index
AddCreate(w, device_type, device_id, device_manager_id) ==
    LET category == IF device_type = ZIGBEE_DEVICE_BULB
                    THEN DEVICE_CATEGORY_LIGHT ELSE DEVICE_CATEGORY_SWITCH
        w1 == Alloc(w, [switch_state |-> FALSE, light_state |-> FALSE])
        w2 == Alloc(w1, [device_id |-> device_manager_id,
                         zigbee_id |-> device_id,
                         device_type |-> DEVICE_TYPE_ZIGBEE,
                         category |-> category,
                         name |-> DeviceName(device_type, device_id),
                         status |-> DEVICE_STATUS_CONNECTED,
                         properties |-> Len(w1.heap)])
    IN  [w2 EXCEPT !.idx = (device_id :> Len(w2.heap)) @@ @]

\* the handler up to its first suspension, or to its end
_handle_add_device(w, n, parsed) ==
    LET pre == View(w)
        device_id == parsed.device_id
        device_type == parsed.device_type
        device_manager_id == DeviceManagerId(device_type, device_id)
    IN  IF "device_id" \notin DOMAIN parsed
        THEN Discard(w, n, parsed)
        ELSE IF device_id \in DOMAIN w.idx
        THEN [w |-> EndEvent(AddKnownInIndex(w, device_id, device_manager_id),
                             n, parsed, pre, "done"),
              st |-> "return", frame |-> NoFrame]
        ELSE IF device_manager_id \in DOMAIN w.reg
        THEN [w |-> EndEvent(AddKnownInRegistry(w, device_id, device_manager_id),
                             n, parsed, pre, "done"),
              st |-> "return", frame |-> NoFrame]
        ELSE LET w1 == AddCreate(w, device_type, device_id, device_manager_id)
                 r == AddDeviceBegin(w1, w1.idx[device_id])
             IN  [w |-> r.w, st |-> "await",
                  frame |-> [handler |-> "add", n |-> n, parsed |-> parsed, pre |-> pre,
                             data |-> w1.idx[device_id], ref |-> r.ref,
                             existing |-> r.existing]]

(***************************************************************************)
(* ZigbeeCoordinator._handle_state_update                                  *)
(***************************************************************************)
\* a switch that is on for subtype 1 only
StatePropertiesTwoState(props, parsed) ==
    LET on1 == parsed.cmd_type = PyInt(1)
    IN  IF parsed.device_type = ZIGBEE_DEVICE_BULB
        THEN IF parsed.supports_brightness /\ "brightness" \in DOMAIN parsed
             THEN update(props, [brightness |-> Clamp255(parsed.brightness),
                                 light_state |-> on1])
             ELSE update(props, [light_state |-> on1])
        ELSE update(props, [switch_state |-> on1, cmd_type |-> parsed.cmd_type])

\* lines 520-546: the class-specific fields, written into the property bag
StateProperties(props, parsed) ==
    LET device_type == parsed.device_type
        has_cmd_type == "cmd_type" \in DOMAIN parsed
        cmd_type == parsed.cmd_type
        supports_brightness == IF "supports_brightness" \in DOMAIN parsed
                               THEN parsed.supports_brightness ELSE FALSE
        with_brightness == supports_brightness /\ "brightness" \in DOMAIN parsed
        on13 == IF has_cmd_type THEN cmd_type = PyInt(1) \/ cmd_type = PyInt(3) ELSE TRUE
        on1 == IF has_cmd_type THEN cmd_type = PyInt(1) ELSE TRUE
    IN  IF device_type = ZIGBEE_DEVICE_BULB
        THEN IF with_brightness
             THEN update(props, [brightness |-> Clamp255(parsed.brightness),
                                 light_state |-> on13])
             ELSE update(props, [light_state |-> on1])
        ELSE IF device_type = ZIGBEE_DEVICE_SWITCH
        THEN LET p1 == IF has_cmd_type
                       THEN update(props, [switch_state |-> on13, cmd_type |-> cmd_type])
                       ELSE update(props, [switch_state |-> TRUE])
             IN  IF with_brightness
                 THEN update(p1, [brightness |-> Clamp255(parsed.brightness)])
                 ELSE p1
        ELSE props

\* lines 548-554: the end of the handler, where the Registry is told
StateNotify(w, n, parsed, pre, data) ==
    LET device_manager_id == w.heap[data].device_id
        ref == w.reg[device_manager_id]
        w1 == [w EXCEPT !.heap[ref] = update(update(@, w.heap[data]), [last_seen |-> w.now])]
    IN  IF device_manager_id \notin DOMAIN w.reg
        THEN [w |-> EndEvent(w, n, parsed, pre, "done"), st |-> "return", frame |-> NoFrame]
        ELSE [w |-> EndEvent(NotifyDeviceUpdate(w1, ref, n), n, parsed, pre, "done"),
              st |-> "return", frame |-> NoFrame]

\* lines 520-554, for the dict data found or made by the first half
StateFinish(w, n, parsed, pre, data) ==
    LET props == w.heap[data].properties
        w1 == [w EXCEPT !.heap[props] = StateProperties(@, parsed)]
    IN  StateNotify(IF parsed.device_type \in {ZIGBEE_DEVICE_BULB, ZIGBEE_DEVICE_SWITCH}
                    THEN w1 ELSE w,
                    n, parsed, pre, data)

\* lines 516-518: the address is in the index
StateKnownInIndex(w, data, supports_brightness) ==
    LET d == w.heap[data]
    IN  IF "properties" \notin DOMAIN d
        THEN LET w1 == Alloc(w, [supports_brightness |-> supports_brightness])
             IN  [w1 EXCEPT !.heap[data] = update(@, [properties |-> Len(w1.heap)])]
        ELSE IF "supports_brightness" \notin DOMAIN w.heap[d.properties]
        THEN [w EXCEPT !.heap[d.properties] =
                           update(@, [supports_brightness |-> supports_brightness])]
        ELSE w

\* lines 472-482: the key is in the Registry only
StateKnownInRegistry(w, device_id, device_manager_id) ==
    LET data == w.reg[device_manager_id]
        w1 == [w EXCEPT !.idx = (device_id :> data) @@ @]
    IN  IF device_manager_id \notin w.created
        THEN [w1 EXCEPT !.created = @ \cup {device_manager_id},
                        !.hq = Append(@, [notify |-> "added", ref |-> data])]
        ELSE w1

\* a new dict whose category is Switch whatever the class
StateCreateAsSwitch(w, device_type, device_id, device_manager_id, supports_brightness) ==
    LET w1 == Alloc(w, [switch_state |-> FALSE, light_state |-> FALSE,
                        supports_brightness |-> supports_brightness])
        w2 == Alloc(w1, [device_id |-> device_manager_id,
                         zigbee_id |-> device_id,
                         device_type |-> DEVICE_TYPE_ZIGBEE,
                         category |-> DEVICE_CATEGORY_SWITCH,
                         name |-> DeviceName(device_type, device_id),
                         status |-> DEVICE_STATUS_CONNECTED,
                         properties |-> Len(w1.heap)])
    IN  [w2 EXCEPT !.idx = (device_id :> Len(w2.heap)) @@ @]

\* lines 489-507: a new dict made from the state update
StateCreate(w, device_type, device_id, device_manager_id, supports_brightness) ==
    LET category == IF device_type = ZIGBEE_DEVICE_BULB
                    THEN DEVICE_CATEGORY_LIGHT ELSE DEVICE_CATEGORY_SWITCH
        w1 == Alloc(w, [switch_state |-> FALSE, light_state |-> FALSE,
                        supports_brightness |-> supports_brightness])
        w2 == Alloc(w1, [device_id |-> device_manager_id,
                         zigbee_id |-> device_id,
                         device_type |-> DEVICE_TYPE_ZIGBEE,
                         category |-> category,
                         name |-> DeviceName(device_type, device_id),
                         status |-> DEVICE_STATUS_CONNECTED,
                         properties |-> Len(w1.heap)])
    IN  [w2 EXCEPT !.idx = (device_id :> Len(w2.heap)) @@ @]

\* the handler up to its first suspension, or to its end
_handle_state_update(w, n, parsed) ==
    LET pre == View(w)
        device_id == parsed.device_id
        device_type == parsed.device_type
        supports_brightness == IF "supports_brightness" \in DOMAIN parsed
                               THEN parsed.supports_brightness ELSE FALSE
        device_manager_id == DeviceManagerId(device_type, device_id)
    IN  IF "device_id" \notin DOMAIN parsed
        THEN Discard(w, n, parsed)
        ELSE IF device_id \in DOMAIN w.idx
        THEN StateFinish(StateKnownInIndex(w, w.idx[device_id], supports_brightness),
                         n, parsed, pre, w.idx[device_id])
        ELSE IF device_manager_id \in DOMAIN w.reg
        THEN StateFinish(StateKnownInRegistry(w, device_id, device_manager_id),
                         n, parsed, pre, w.reg[device_manager_id])
        ELSE LET w1 == StateCreate(w, device_type, device_id, device_manager_id,
                                   supports_brightness)
                 r == AddDeviceBegin(w1, w1.idx[device_id])
             IN  [w |-> r.w, st |-> "await",
                  frame |-> [handler |-> "state", n |-> n, parsed |-> parsed, pre |-> pre,
                             data |-> w1.idx[device_id], ref |-> r.ref,
                             existing |-> r.existing]]

(***************************************************************************)
(* ZigbeeCoordinator._handle_serial_message                                *)
(***************************************************************************)
\* lines 369-375: the class in lower case, sw written out
NormalizeDeviceType(parsed) ==
    LET device_type == lower(parsed.device_type)
    IN  [parsed EXCEPT !.device_type =
             IF device_type = SW THEN ZIGBEE_DEVICE_SWITCH ELSE device_type]

\* a line that is not understood and empties the index
UnparsedForgetting(w, n) ==
    Ended(EndEvent([w EXCEPT !.idx = EmptyDict], n, None, View(w), "unparsed"))

\* lines 359-361: parse_command has returned None
Unparsed(w, n) == Ended(EndEvent(w, n, None, View(w), "unparsed"))

\* a delete that is applied to the index
_handle_delete_device_applied(w, n, parsed) ==
    Ended(EndEvent([w EXCEPT !.idx = EmptyDict], n, parsed, View(w), "logged"))

\* _handle_delete_device, lines 446-450: the command is logged
_handle_delete_device(w, n, parsed) == Ended(EndEvent(w, n, parsed, View(w), "logged"))

\* lines 388-389: a command of another kind is logged
UnknownCommand(w, n, parsed) == Ended(EndEvent(w, n, parsed, View(w), "unknown"))

_handle_serial_message(w, line) ==
    LET n == w.nev + 1
        w0 == [w EXCEPT !.nev = n, !.dispatched = Append(@, line)]
        Dispatch(raw, parsed) ==
            IF raw = None THEN Unparsed(w0, n)
            ELSE IF parsed.command = ZIGBEE_CMD_ADD
            THEN _handle_add_device(w0, n, parsed)
            ELSE IF parsed.command = ZIGBEE_CMD_DEL
            THEN _handle_delete_device(w0, n, parsed)
            ELSE IF parsed.command = ZIGBEE_CMD_STATE
            THEN _handle_state_update(w0, n, parsed)
            ELSE UnknownCommand(w0, n, parsed)
        Parsed(raw) == Dispatch(raw, NormalizeDeviceType(raw))
    IN  Parsed(parse_command(line))

\* a handler resumed when add_device's await of _save_devices returns
ResumeHandler(w, frame) ==
    LET w1 == AddDeviceEnd(w, frame.ref, frame.existing)
    IN  IF frame.handler = "add"
        THEN [w |-> EndEvent(w1, frame.n, frame.parsed, frame.pre, "done"),
              st |-> "return", frame |-> NoFrame]
        ELSE StateFinish(w1, frame.n, frame.parsed, frame.pre, frame.data)

(***************************************************************************)
(* The lines 335-339 of _read_serial_loop: every complete line of the      *)
(* buffer is split off and handled, up to the first handler that suspends. *)
(***************************************************************************)
RECURSIVE ProcessLines(_, _)
ProcessLines(w, buffer) ==
    LET i == find(buffer, SERIAL_LINE_ENDING)
        line == SubSeq(buffer, 1, i - 1)
        rest == SubSeq(buffer, i + Len(SERIAL_LINE_ENDING), Len(buffer))
        Continue(r) ==
            IF r.st = "await"
            THEN [w |-> r.w, st |-> "await", buffer |-> rest, frame |-> r.frame]
            ELSE ProcessLines(r.w, rest)
    IN  IF i = 0
        THEN [w |-> w, st |-> "return", buffer |-> buffer, frame |-> NoFrame]
        ELSE IF strip(line) = <<>> THEN ProcessLines(w, rest)
        ELSE Continue(_handle_serial_message(w, line))

(***************************************************************************)
(* ZigbeeCoordinator._find_serial_port, for the device names that          *)
(* serial.tools.list_ports.comports has returned                           *)
(***************************************************************************)
ttyUSB == <<"t", "t", "y", "U", "S", "B">>
ttyACM == <<"t", "t", "y", "A", "C", "M">>

\* sub in s
contains(s, sub) == find(s, sub) # 0

\* the first port listed, whatever its name
_find_first_port(ports) == IF Len(ports) = 0 THEN NoText ELSE ports[1]

_find_serial_port(ports) ==
    LET usb_ports == SelectSeq(ports, LAMBDA p : contains(p, ttyUSB) \/ contains(p, ttyACM))
        ttyusb_ports == SelectSeq(usb_ports, LAMBDA p : contains(p, ttyUSB))
    IN  IF Len(ports) = 0 THEN NoText
        ELSE IF usb_ports # <<>>
        THEN IF Len(usb_ports) = 1 THEN usb_ports[1]
             ELSE IF ttyusb_ports # <<>> THEN ttyusb_ports[1]
             ELSE usb_ports[1]
        ELSE IF Len(ports) = 1 THEN ports[1]
        ELSE NoText

(***************************************************************************)
(* State                                                                   *)
(***************************************************************************)
VARIABLES
    \* a caller of the codec: the arguments, the line built, the result parsed
    args, built, parsed,
    \* the platform: the import of pyserial, the input and output of the
    \* dongle's port, the clock
    SERIAL_AVAILABLE, rx, tx, now,
    \* the bytes the dongle sends as one stream, and how many have arrived
    wire,
    \* ZigbeeCoordinator
    serial_port, serial_connection, _running, _read_task, _devices,
    \* the Serial objects made, the read loop tasks made, the dicts made
    conns, tasks, heap,
    \* GemnsDeviceManager: the Registry, the keys whose entity was announced,
    \* the coroutines given to hass.async_create_task
    devices, _created_entities, hq,
    \* what was observed: signals sent, lines handled, the lines handed to
    \* _handle_serial_message in order
    signals, event, nev, dispatched,
    \* the calls of async_start and async_stop that are suspended, and what
    \* the last call to return gave back and left behind
    calls, ret,
    \* whether an open attempt has followed the last failure of the link
    retry,
    \* what the environment may still do
    quota

codecVars == <<args, built, parsed>>
platformVars == <<SERIAL_AVAILABLE, rx, tx, now>>
coordVars == <<serial_port, serial_connection, _running, _read_task, conns, tasks>>
worldVars == <<_devices, heap, devices, _created_entities, hq, signals, event, nev,
               dispatched>>
vars == <<codecVars, wire, platformVars, coordVars, worldVars, calls, ret, retry, quota>>

(***************************************************************************)
(* Bounds                                                                  *)
(***************************************************************************)
\* the largest of the small addresses a caller passes
MaxAddr == 2

\* a value passed where an int is expected
Ints == {PyInt(k) : k \in 0..MaxAddr} \cup
        {PyInt(255), PyInt(256), PyInt(300), PyInt(55424), PyInt(65535),
         [neg |-> FALSE, hi |-> 1, lo |-> 0],
         [neg |-> FALSE, hi |-> Limb - 1, lo |-> Limb - 1],
         [neg |-> FALSE, hi |-> Limb, lo |-> 7],
         PyInt(-1)}

Unsigned32(n) == n # None /\ ~n.neg /\ n.hi < Limb

ZeroQuota == [start |-> 0, stop |-> 0, send |-> 0, line |-> 0, fault |-> 0,
              unplug |-> 0, tick |-> 0, scan |-> 0]

(***************************************************************************)
(* After construction (ZigbeeCoordinator.__init__, lines 185-194, and      *)
(* GemnsDeviceManager.__init__), with nothing stored                       *)
(***************************************************************************)
\* no stream: the dongle sends line by line
NoWire == [bytes |-> <<>>, at |-> 0]

InitCodecIdle ==
    /\ args = None
    /\ built = NoText
    /\ parsed = None

InitCoordinator ==
    /\ rx = <<>>
    /\ tx = <<>>
    /\ now = 0
    /\ serial_connection = 0
    /\ _running = FALSE
    /\ _read_task = 0
    /\ _devices = EmptyDict
    /\ conns = <<>>
    /\ tasks = <<>>
    /\ signals = <<>>
    /\ event = [res |-> "none"]
    /\ nev = 0
    /\ dispatched = <<>>
    /\ calls = <<>>
    /\ ret = [op |-> "none"]
    /\ retry = "idle"
    /\ hq = <<>>

InitEmptyRegistry ==
    /\ heap = <<>>
    /\ devices = EmptyDict
    /\ _created_entities = {}

(***************************************************************************)
(* A caller of the codec                                                   *)
(***************************************************************************)
Commands == {ZIGBEE_CMD_PAIR, ZIGBEE_CMD_ADD, ZIGBEE_CMD_DEL, ZIGBEE_CMD_STATE}
Classes == {ZIGBEE_DEVICE_BULB, ZIGBEE_DEVICE_SWITCH}

InitCodec ==
    /\ args \in [command : Commands, device_type : Classes,
                 device_id : Ints \cup {None}, state : BOOLEAN,
                 brightness : Ints \cup {None}]
    /\ built = NoText
    /\ parsed = None
    /\ wire = NoWire
    /\ SERIAL_AVAILABLE = TRUE
    /\ serial_port = NoText
    /\ InitCoordinator
    /\ InitEmptyRegistry
    /\ quota = ZeroQuota

Build ==
    /\ args # None
    /\ built = NoText
    /\ built' = build_command(args.command, args.device_type, args.device_id,
                              args.state, args.brightness)
    /\ UNCHANGED <<args, parsed, wire, platformVars, coordVars, worldVars, calls, ret, retry,
                   quota>>

Parse ==
    /\ built # NoText
    /\ parsed = None
    /\ parsed' = [result |-> parse_command(built)]
    /\ UNCHANGED <<args, built, wire, platformVars, coordVars, worldVars, calls, ret, retry,
                   quota>>

NextCodec == Build \/ Parse

SpecCodec == InitCodec /\ [][NextCodec]_vars

\* the arguments are in the domain of the protocol: an unsigned 32-bit
\* address where the kind carries one
ValidArgs ==
    args.command \in {ZIGBEE_CMD_ADD, ZIGBEE_CMD_STATE} => Unsigned32(args.device_id)

\* the parsed result is the command the arguments describe
Equivalent(a, r) ==
    /\ r # None
    /\ r.command = a.command
    /\ r.device_type = a.device_type
    /\ a.command \in {ZIGBEE_CMD_ADD, ZIGBEE_CMD_STATE} =>
           "device_id" \in DOMAIN r /\ r.device_id = a.device_id
    /\ a.command = ZIGBEE_CMD_STATE =>
           /\ (r.cmd_type = PyInt(1)) = a.state
           /\ r.cmd_type \in {PyInt(0), PyInt(1)}
           /\ IF a.brightness = None THEN "brightness" \notin DOMAIN r
              ELSE "brightness" \in DOMAIN r /\ r.brightness = Clamp255(a.brightness)

\* C1 as stated: parse_command on the line of build_command gives back an
\* equivalent command for every kind, Pair included, and never none.
C1_RoundTripAllKinds ==
    (parsed # None /\ ValidArgs) => Equivalent(args, parsed.result)

\* C1, amended: for the kinds Add, Delete and StateUpdate parse_command on
\* the line of build_command gives back a command of the same kind, class,
\* address (Add, StateUpdate), subtype 1 exactly for "on", and the clamped
\* brightness of a StateUpdate; the line built for Pair is not recognised
\* and parses to none.
C1_RoundTrip ==
    (parsed # None /\ ValidArgs) =>
        IF args.command = ZIGBEE_CMD_PAIR THEN parsed.result = None
        ELSE Equivalent(args, parsed.result)

\* a StateUpdate with a brightness above the range came back clamped
C1_Witness ==
    /\ parsed # None
    /\ args.command = ZIGBEE_CMD_STATE
    /\ args.device_id = PyInt(55424)
    /\ args.brightness = PyInt(300)
    /\ parsed.result # None
    /\ parsed.result.brightness = PyInt(255)

(***************************************************************************)
(* The coordinator's life cycle.  An action is the code a coroutine runs   *)
(* between two suspensions of the event loop.                              *)
(***************************************************************************)
DevTtyUSB0 == <<"/", "d", "e", "v", "/", "t", "t", "y", "U", "S", "B", "0">>
DevTtyUSB1 == <<"/", "d", "e", "v", "/", "t", "t", "y", "U", "S", "B", "1">>
DevTtyACM0 == <<"/", "d", "e", "v", "/", "t", "t", "y", "A", "C", "M", "0">>
DevTtyS0 == <<"/", "d", "e", "v", "/", "t", "t", "y", "S", "0">>
DevTtyS1 == <<"/", "d", "e", "v", "/", "t", "t", "y", "S", "1">>

\* what comports may return
PortLists == {<<>>, <<DevTtyUSB0>>, <<DevTtyS0>>, <<DevTtyACM0, DevTtyUSB0>>,
              <<DevTtyS0, DevTtyS1>>}

\* where a read loop task can be: not yet run, at the sleep of line 347, at
\* the sleep of line 352, inside a handler at add_device's await of
\* _save_devices; or ended
ActivePcs == {"created", "sleep", "backoff", "save"}

NewTask == [pc |-> "created", buffer |-> <<>>, frame |-> NoFrame, cancel |-> FALSE,
            caught |-> FALSE]

Open(cn) == {i \in DOMAIN cn : cn[i].is_open}
Active(ts) == {i \in DOMAIN ts : ts[i].pc \in ActivePcs}

\* a call of op returns result; cn and ts are the links and tasks at that
\* moment
Returned(op, result, cn, ts) ==
    [op |-> op, result |-> result, open |-> Open(cn), active |-> Active(ts),
     failed |-> FALSE, wrote |-> FALSE]

Remove(cs, c) == SubSeq(cs, 1, c - 1) \o SubSeq(cs, c + 1, Len(cs))

\* async_start from line 212 on: port is the value of self.serial_port, exists the answer of os.path.exists, ok
\* whether serial.Serial opens the port
StartConnect(port, exists, ok) ==
    /\ serial_port' = port
    /\ retry' = IF port # NoText /\ exists /\ retry = "needed" THEN "attempted" ELSE retry
    /\ IF port = NoText \/ ~exists \/ ~ok
       THEN /\ ret' = Returned("start", "False", conns, tasks)
            /\ UNCHANGED <<serial_connection, _running, _read_task, conns, tasks>>
       ELSE /\ conns' = Append(conns, [port |-> port, is_open |-> TRUE, broken |-> FALSE])
            /\ serial_connection' = Len(conns) + 1
            /\ _running' = TRUE
            /\ tasks' = Append(tasks, NewTask)
            /\ _read_task' = Len(tasks) + 1
            /\ ret' = Returned("start", "True", conns', tasks')

\* async_start up to its return, or to the await of _find_serial_port
StartCall ==
    /\ quota.start > 0
    /\ quota' = [quota EXCEPT !.start = @ - 1]
    /\ IF ~SERIAL_AVAILABLE
       THEN /\ ret' = Returned("start", "False", conns, tasks)
            /\ UNCHANGED <<coordVars, calls, retry>>
       ELSE IF serial_port = NoText
       THEN /\ calls' = Append(calls, [op |-> "start", task |-> 0])
            /\ UNCHANGED <<coordVars, ret, retry>>
       ELSE /\ \E exists \in BOOLEAN, ok \in BOOLEAN :
                   StartConnect(serial_port, exists, ok)
            /\ UNCHANGED calls
    /\ UNCHANGED <<codecVars, wire, platformVars, worldVars>>

\* async_start after _find_serial_port: ports is what comports returned,
\* raises whether it raised instead (lines 315-319)
StartResume(c) ==
    /\ calls[c].op = "start"
    /\ calls' = Remove(calls, c)
    /\ \E ports \in PortLists, raises \in BOOLEAN, exists \in BOOLEAN, ok \in BOOLEAN :
           StartConnect(IF raises THEN NoText ELSE _find_serial_port(ports), exists, ok)
    /\ UNCHANGED <<codecVars, wire, platformVars, worldVars, quota>>

\* lines 256-258 of async_stop
StopClose(ts) ==
    /\ conns' = IF serial_connection # 0 /\ conns[serial_connection].is_open
                THEN [conns EXCEPT ![serial_connection].is_open = FALSE]
                ELSE conns
    /\ ret' = Returned("stop", "None", conns', ts)

\* async_stop up to its return, or to the await of the read loop task
StopCall ==
    /\ quota.stop > 0
    /\ quota' = [quota EXCEPT !.stop = @ - 1]
    /\ _running' = FALSE
    /\ IF _read_task # 0 /\ tasks[_read_task].pc \in ActivePcs
       THEN /\ tasks' = [tasks EXCEPT ![_read_task].cancel = TRUE]
            /\ calls' = Append(calls, [op |-> "stop", task |-> _read_task])
            /\ UNCHANGED <<conns, ret>>
       ELSE /\ StopClose(tasks)
            /\ UNCHANGED <<tasks, calls>>
    /\ UNCHANGED <<codecVars, wire, platformVars, worldVars, serial_port, serial_connection,
                   _read_task, retry>>

\* async_stop after the task it awaits has ended
StopResume(c) ==
    /\ calls[c].op = "stop"
    /\ tasks[calls[c].task].pc \notin ActivePcs
    /\ calls' = Remove(calls, c)
    /\ StopClose(tasks)
    /\ UNCHANGED <<codecVars, wire, platformVars, worldVars, serial_port, serial_connection,
                   _running, _read_task, tasks, retry, quota>>

\* what send_pairing_command and send_control_command return (lines 562 and
\* 578: they fall off their end) after _write_serial has or has not written
SendResult(wrote) == "None"

\* _write_serial for the caller op: fail is whether write raises
_write_serial(op, data, fail) ==
    LET open == serial_connection # 0 /\ conns[serial_connection].is_open
        raised == open /\ (fail \/ conns[serial_connection].broken)
    IN  /\ tx' = IF open /\ ~raised THEN Append(tx, data) ELSE tx
        /\ ret' = [Returned(op, SendResult(open /\ ~raised), conns, tasks)
                       EXCEPT !.failed = ~open \/ raised,
                              !.wrote = tx' # tx]

SendQuota(fail) ==
    /\ quota.send > 0
    /\ fail => quota.fault > 0
    /\ quota' = [quota EXCEPT !.send = @ - 1,
                              !.fault = IF fail THEN @ - 1 ELSE @]

send_pairing_command ==
    \E fail \in BOOLEAN :
        /\ SendQuota(fail)
        /\ _write_serial("send_pairing_command",
                         build_command(ZIGBEE_CMD_PAIR, <<>>, None, FALSE, None), fail)
        /\ UNCHANGED <<codecVars, wire, SERIAL_AVAILABLE, rx, now, coordVars, worldVars, calls,
                       retry>>

send_control_command ==
    \E fail \in BOOLEAN, device_id \in {PyInt(1)}, device_type \in {ZIGBEE_DEVICE_BULB},
       state \in BOOLEAN, brightness \in {None, PyInt(128)} :
        /\ SendQuota(fail)
        /\ _write_serial("send_control_command",
                         build_command(ZIGBEE_CMD_STATE, device_type, device_id, state,
                                       brightness), fail)
        /\ UNCHANGED <<codecVars, wire, SERIAL_AVAILABLE, rx, now, coordVars, worldVars, calls,
                       retry>>

(***************************************************************************)
(* The read loop task, _read_serial_loop                                   *)
(***************************************************************************)
World == [idx |-> _devices, reg |-> devices, heap |-> heap,
          created |-> _created_entities, signals |-> signals, hq |-> hq,
          event |-> event, nev |-> nev, dispatched |-> dispatched, now |-> now]

SetWorld(w) ==
    /\ _devices' = w.idx
    /\ devices' = w.reg
    /\ heap' = w.heap
    /\ _created_entities' = w.created
    /\ signals' = w.signals
    /\ hq' = w.hq
    /\ event' = w.event
    /\ nev' = w.nev
    /\ dispatched' = w.dispatched

\* a loop that an exception ends
OnExceptionExit(task) == [task EXCEPT !.pc = "done", !.frame = NoFrame, !.caught = TRUE]

\* lines 349-352: the exception is logged and the task sleeps one second
OnException(task) == [task EXCEPT !.pc = "backoff", !.frame = NoFrame, !.caught = TRUE]

\* the task goes on after ProcessLines has given r
AfterLines(task, r) ==
    [task EXCEPT !.pc = IF r.st = "await" THEN "save" ELSE "sleep",
                 !.buffer = r.buffer, !.frame = r.frame]

\* one turn of the loop, lines 326-347, from the start of the task or from
\* one of its two sleeps; fail is whether in_waiting raises
LoopPoll(t) ==
    /\ tasks[t].pc \in {"created", "sleep", "backoff"}
    /\ ~tasks[t].cancel
    /\ \E fail \in BOOLEAN :
        /\ fail => quota.fault > 0 /\ _running /\ serial_connection # 0
                   /\ conns[serial_connection].is_open
        /\ quota' = [quota EXCEPT !.fault = IF fail THEN @ - 1 ELSE @]
        /\ IF ~_running
           THEN /\ tasks' = [tasks EXCEPT ![t].pc = "done"]
                /\ UNCHANGED <<rx, worldVars>>
           ELSE IF serial_connection # 0 /\ conns[serial_connection].is_open
           THEN IF fail \/ conns[serial_connection].broken
                THEN /\ tasks' = [tasks EXCEPT ![t] = OnException(@)]
                     /\ UNCHANGED <<rx, worldVars>>
                ELSE IF rx = <<>>
                THEN /\ tasks' = [tasks EXCEPT ![t].pc = "sleep"]
                     /\ UNCHANGED <<rx, worldVars>>
                ELSE LET Processed(r) ==
                             /\ SetWorld(r.w)
                             /\ tasks' = [tasks EXCEPT ![t] = AfterLines(@, r)]
                     IN  /\ rx' = <<>>
                         /\ Processed(ProcessLines(World, tasks[t].buffer \o decode(rx)))
           ELSE /\ tasks' = [tasks EXCEPT ![t].pc = "sleep"]
                /\ UNCHANGED <<rx, worldVars>>
    /\ UNCHANGED <<codecVars, wire, SERIAL_AVAILABLE, tx, now, serial_port, serial_connection,
                   _running, _read_task, conns, calls, ret, retry>>

\* the await of _save_devices inside add_device ends: the handler runs to
\* its end and the loop goes on with the lines left in the buffer; with
\* fail the await raises (the executor refuses the job)
LoopResume(t) ==
    /\ tasks[t].pc = "save"
    /\ ~tasks[t].cancel
    /\ \E fail \in BOOLEAN :
        /\ fail => quota.fault > 0
        /\ quota' = [quota EXCEPT !.fault = IF fail THEN @ - 1 ELSE @]
        /\ IF fail
           THEN LET f == tasks[t].frame
                IN  /\ SetWorld(EndEvent(World, f.n, f.parsed, f.pre, "raised"))
                    /\ tasks' = [tasks EXCEPT ![t] = OnException(@)]
           ELSE LET h == ResumeHandler(World, tasks[t].frame)
                    Processed(r) ==
                        /\ SetWorld(r.w)
                        /\ tasks' = [tasks EXCEPT ![t] = AfterLines(@, r)]
                IN  Processed(ProcessLines(h.w, tasks[t].buffer))
    /\ UNCHANGED <<codecVars, wire, platformVars, serial_port, serial_connection, _running,
                   _read_task, conns, calls, ret, retry>>

\* the task is resumed after Task.cancel: CancelledError is raised at the
\* await it was suspended in and is not caught by "except Exception"
LoopCancelled(t) ==
    /\ tasks[t].pc \in ActivePcs
    /\ tasks[t].cancel
    /\ tasks' = [tasks EXCEPT ![t].pc = "cancelled", ![t].frame = NoFrame]
    /\ IF tasks[t].pc = "save"
       THEN LET f == tasks[t].frame
            IN  SetWorld(EndEvent(World, f.n, f.parsed, f.pre, "cancelled"))
       ELSE UNCHANGED worldVars
    /\ UNCHANGED <<codecVars, wire, platformVars, serial_port, serial_connection, _running,
                   _read_task, conns, calls, ret, retry, quota>>

(***************************************************************************)
(* The platform                                                            *)
(***************************************************************************)
\* the dongle is pulled out: every open link fails from now on
Unplug ==
    /\ quota.unplug > 0
    /\ \E i \in DOMAIN conns : conns[i].is_open /\ ~conns[i].broken
    /\ quota' = [quota EXCEPT !.unplug = @ - 1]
    /\ conns' = [i \in DOMAIN conns |->
                    IF conns[i].is_open THEN [conns[i] EXCEPT !.broken = TRUE]
                    ELSE conns[i]]
    /\ retry' = IF _running THEN "needed" ELSE retry
    /\ UNCHANGED <<codecVars, wire, platformVars, worldVars, serial_port, serial_connection,
                   _running, _read_task, tasks, calls, ret>>

\* a Serial object the coordinator no longer refers to is finalized
\* (io.IOBase.__del__ closes it) at a moment the interpreter chooses
Finalize(i) ==
    /\ conns[i].is_open
    /\ i # serial_connection
    /\ conns' = [conns EXCEPT ![i].is_open = FALSE]
    /\ UNCHANGED <<codecVars, wire, platformVars, worldVars, serial_port, serial_connection,
                   _running, _read_task, tasks, calls, ret, retry, quota>>

\* the dongle sends a line of ASCII text: its bytes are its characters
Deliver(line) ==
    /\ quota.line > 0
    /\ \E i \in DOMAIN conns : conns[i].is_open /\ ~conns[i].broken
    /\ quota' = [quota EXCEPT !.line = @ - 1]
    /\ rx' = rx \o line \o SERIAL_LINE_ENDING
    /\ UNCHANGED <<codecVars, wire, SERIAL_AVAILABLE, tx, now, coordVars, worldVars, calls, ret,
                   retry>>

\* the seconds that pass in one step of the clock
TickSeconds == 6

Tick ==
    /\ quota.tick > 0
    /\ quota' = [quota EXCEPT !.tick = @ - 1]
    /\ now' = now + TickSeconds
    /\ UNCHANGED <<codecVars, wire, SERIAL_AVAILABLE, rx, tx, coordVars, worldVars, calls, ret,
                   retry>>

(***************************************************************************)
(* GemnsDeviceManager: the discovery loop and the tasks of the event loop  *)
(***************************************************************************)
timeout_seconds == 5

\* the keys of the Registry in the order of the dict (the order of insertion)
RECURSIVE KeysInOrder(_, _)
KeysInOrder(reg, ks) ==
    IF ks = {} THEN <<>>
    ELSE LET k == CHOOSE x \in ks : \A y \in ks : reg[x] <= reg[y]
         IN  <<k>> \o KeysInOrder(reg, ks \ {k})

\* the body of the loop of _update_device_statuses for one device; rnd is
\* whether random.random() < 0.1
UpdateStatus(w, k, rnd) ==
    LET ref == w.reg[k]
        device == w.heap[ref]
        properties == IF "properties" \in DOMAIN device
                      THEN w.heap[device.properties] ELSE EmptyDict
        is_zigbee_switch_cmd3 ==
            /\ device.device_type = DEVICE_TYPE_ZIGBEE
            /\ device.category = DEVICE_CATEGORY_SWITCH
            /\ Get(properties, "cmd_type") = PyInt(3)
        notified == [w EXCEPT !.hq = Append(@, [notify |-> "update", ref |-> ref])]
    IN  IF device.status # "connected" THEN w
        ELSE IF is_zigbee_switch_cmd3
        THEN IF w.now - device.last_seen > timeout_seconds
             THEN [notified EXCEPT !.heap[ref].status = DEVICE_STATUS_OFFLINE]
             ELSE w
        ELSE IF rnd
        THEN [notified EXCEPT !.heap[ref].status = "offline",
                              !.heap[ref].last_seen = w.now]
        ELSE w

RECURSIVE UpdateStatuses(_, _, _)
UpdateStatuses(w, ks, unlucky) ==
    IF ks = <<>> THEN w
    ELSE UpdateStatuses(UpdateStatus(w, Head(ks), Head(ks) \in unlucky), Tail(ks), unlucky)

\* one round of _device_discovery_loop
_update_device_statuses ==
    /\ quota.scan > 0
    /\ quota' = [quota EXCEPT !.scan = @ - 1]
    /\ \E unlucky \in SUBSET DOMAIN devices :
           SetWorld(UpdateStatuses(World, KeysInOrder(devices, DOMAIN devices), unlucky))
    /\ UNCHANGED <<codecVars, wire, platformVars, coordVars, calls, ret, retry>>

\* the event loop runs the oldest coroutine given to hass.async_create_task
HassRun ==
    /\ hq # <<>>
    /\ LET w == [World EXCEPT !.hq = Tail(@)]
       IN  SetWorld(IF Head(hq).notify = "added"
                    THEN NotifyDeviceAdded(w, Head(hq).ref, 0)
                    ELSE NotifyDeviceUpdate(w, Head(hq).ref, 0))
    /\ UNCHANGED <<codecVars, wire, platformVars, coordVars, calls, ret, retry, quota>>

(***************************************************************************)
(* Lines the dongle sends                                                  *)
(***************************************************************************)
RECURSIVE Words(_)
Words(ws) == IF Len(ws) = 1 THEN ws[1] ELSE ws[1] \o Sp \o Words(Tail(ws))

Num(k) == str(PyInt(k))

AT(command) == ZIGBEE_CMD_PREFIX \o <<"+">> \o command

LineAddBulb1 == Words(<<AT(ZIGBEE_CMD_ADD), ZIGBEE_DEVICE_BULB, Num(2), Num(2), Num(1)>>)
LineAddSwitch1 == Words(<<AT(ZIGBEE_CMD_ADD), ZIGBEE_DEVICE_SWITCH, Num(2), Num(3), Num(1)>>)
LineBulb1On == Words(<<AT(ZIGBEE_CMD_STATE), ZIGBEE_DEVICE_BULB, Num(3), Num(1), Num(1)>>)
LineSw1On == Words(<<AT(ZIGBEE_CMD_STATE), SW, Num(3), Num(1), Num(1)>>)
LineSwitch2Held == Words(<<AT(ZIGBEE_CMD_STATE), ZIGBEE_DEVICE_SWITCH, Num(3), Num(2), Num(3)>>)
LineBulb2Dim == Words(<<AT(ZIGBEE_CMD_STATE), ZIGBEE_DEVICE_BULB, Num(4), Num(2), Num(0),
                        Num(128)>>)
LineBulb1Dim == Words(<<AT(ZIGBEE_CMD_STATE), ZIGBEE_DEVICE_BULB, Num(4), Num(1), Num(1),
                        Num(200)>>)
LineStateNoAddress == Words(<<AT(ZIGBEE_CMD_STATE), ZIGBEE_DEVICE_BULB, Num(1), Num(2)>>)
LineDelBulb == Words(<<AT(ZIGBEE_CMD_DEL), ZIGBEE_DEVICE_BULB, Num(1), Num(2)>>)
LineNoise == <<"O", "K">>
LineStateBare == AT(ZIGBEE_CMD_STATE)
LinePairBulb == Words(<<AT(ZIGBEE_CMD_PAIR), ZIGBEE_DEVICE_BULB, Num(1), Num(2)>>)
LineAddNoAddress == Words(<<AT(ZIGBEE_CMD_ADD), ZIGBEE_DEVICE_BULB, Num(2), Num(2)>>)

Lines == {LineAddBulb1, LineAddSwitch1, LineBulb1On, LineSw1On, LineSwitch2Held,
          LineBulb2Dim, LineBulb1Dim, LineStateNoAddress, LineDelBulb, LineNoise}

(***************************************************************************)
(* The Registry as _load_devices finds it after a restart: empty, or with  *)
(* the record of bulb 1 that an earlier run has stored                     *)
(***************************************************************************)
StoredKey == DeviceManagerId(ZIGBEE_DEVICE_BULB, PyInt(1))

InitStoredRegistry ==
    /\ heap = << [switch_state |-> FALSE, light_state |-> FALSE,
                  supports_brightness |-> FALSE],
                 [device_id |-> StoredKey,
                  device_type |-> DEVICE_TYPE_ZIGBEE,
                  category |-> DEVICE_CATEGORY_LIGHT,
                  name |-> DeviceName(ZIGBEE_DEVICE_BULB, PyInt(1)),
                  zigbee_id |-> PyInt(1),
                  ble_discovery_mode |-> "v0_manual",
                  status |-> DEVICE_STATUS_OFFLINE,
                  last_seen |-> 0,
                  created_manually |-> FALSE,
                  properties |-> 1] >>
    /\ devices = (StoredKey :> 2)
    /\ _created_entities = {StoredKey}

(***************************************************************************)
(* The coordinator at work: started at most once, fed by the dongle,       *)
(* beside the Registry's discovery loop                                    *)
(***************************************************************************)
ReconLines == 2
ReconFaults == 1
ReconTicks == 1
ReconScans == 1

InitRecon ==
    /\ InitCodecIdle
    /\ wire = NoWire
    /\ SERIAL_AVAILABLE = TRUE
    /\ serial_port = DevTtyUSB0
    /\ InitCoordinator
    /\ InitEmptyRegistry \/ InitStoredRegistry
    /\ quota = [ZeroQuota EXCEPT !.start = 1, !.stop = 1, !.line = ReconLines,
                                 !.fault = ReconFaults, !.tick = ReconTicks,
                                 !.scan = ReconScans]

NextRecon ==
    \/ StartCall
    \/ StopCall
    \/ \E c \in DOMAIN calls : StopResume(c)
    \/ \E t \in DOMAIN tasks : LoopPoll(t)
    \/ \E t \in DOMAIN tasks : LoopResume(t)
    \/ \E t \in DOMAIN tasks : LoopCancelled(t)
    \/ \E line \in Lines : Deliver(line)
    \/ Tick
    \/ _update_device_statuses
    \/ HassRun

SpecRecon == InitRecon /\ [][NextRecon]_vars

(***************************************************************************)
(* The life cycle under callers that start, stop and send in any order     *)
(***************************************************************************)
LifeStarts == 2
LifeStops == 2
LifeSends == 1
LifeFaults == 1
LifeUnplugs == 1

InitLife ==
    /\ InitCodecIdle
    /\ wire = NoWire
    /\ SERIAL_AVAILABLE \in BOOLEAN
    /\ serial_port \in {NoText, DevTtyUSB0}
    /\ InitCoordinator
    /\ InitEmptyRegistry
    /\ quota = [ZeroQuota EXCEPT !.start = LifeStarts, !.stop = LifeStops,
                                 !.send = LifeSends, !.fault = LifeFaults,
                                 !.unplug = LifeUnplugs]

NextLife ==
    \/ StartCall
    \/ \E c \in DOMAIN calls : StartResume(c)
    \/ StopCall
    \/ \E c \in DOMAIN calls : StopResume(c)
    \/ send_pairing_command
    \/ send_control_command
    \/ \E t \in DOMAIN tasks : LoopPoll(t)
    \/ \E t \in DOMAIN tasks : LoopCancelled(t)
    \/ Unplug
    \/ \E i \in DOMAIN conns : Finalize(i)

SpecLife == InitLife /\ [][NextLife]_vars

\* SpecLife with the scheduling of the event loop: a task or coroutine
\* that can run is run; what callers and the platform do is not forced
SpecRetry ==
    /\ InitLife
    /\ [][NextLife]_vars
    /\ WF_vars(\E t \in DOMAIN tasks : LoopPoll(t))
    /\ WF_vars(\E t \in DOMAIN tasks : LoopCancelled(t))
    /\ WF_vars(\E c \in DOMAIN calls : StartResume(c))
    /\ WF_vars(\E c \in DOMAIN calls : StopResume(c))

\* C2: under any sequence of start() and stop() calls at most one link
\* opened by the coordinator is open and at most one read loop task is
\* active.
C2_SingleOwner ==
    /\ Cardinality(Open(conns)) <= 1
    /\ Cardinality(Active(tasks)) <= 1

\* C3: when stop() returns, no read loop task of the coordinator is active
\* and no link it opened is open, whatever the loop was doing when stop()
\* was called, also when stop() is called on a coordinator never started or
\* already stopped.
C3_StopLeavesClosed ==
    ret.op = "stop" => ret.open = {} /\ ret.active = {}

\* C4: when the link has failed while the coordinator is running, an
\* attempt to open the link again follows, unless stop() is called.
C4_AutoRetry ==
    (retry = "needed" /\ _running) ~> (retry = "attempted" \/ ~_running)

\* C5: a send made while the link is not open, or whose write raises,
\* writes nothing and returns a result different from the result of a send
\* that wrote.
C5_FailureReported ==
    (ret.op \in {"send_pairing_command", "send_control_command"} /\ ret.failed) =>
        /\ ~ret.wrote
        /\ ret.result # SendResult(TRUE)

\* C6: a start() that returns false leaves no open link and no active read
\* loop; a start() that returns true leaves an open link and a read loop.
C6_StartResult ==
    ret.op = "start" =>
        /\ ret.result = "False" => ret.open = {} /\ ret.active = {}
        /\ ret.result = "True" => ret.open # {} /\ ret.active # {}

\* C7: while the coordinator runs, an exception in a poll or in the
\* handling of a line does not end the read loop: the task goes to its
\* backoff sleep with the bytes it had buffered, leaves that sleep by
\* polling again, and ends only once stop() has cleared _running.
C7_LoopSurvives ==
    [][\A t \in DOMAIN tasks :
        /\ (tasks[t].pc \in ActivePcs /\ tasks'[t].pc \notin ActivePcs) => ~_running
        /\ tasks'[t].pc = "backoff" => tasks'[t].buffer = tasks[t].buffer
        /\ (tasks[t].pc = "backoff" /\ tasks'[t].pc \in ActivePcs) =>
               tasks'[t].pc \in {"backoff", "sleep", "save"}]_vars

\* a running loop that has caught an exception raised in a handler, kept
\* the line that was behind the failing one in its buffer, and polled again
C7_Witness ==
    \E t \in DOMAIN tasks :
        /\ _running
        /\ tasks[t].caught
        /\ tasks[t].pc = "sleep"
        /\ tasks[t].buffer # <<>>
        /\ event.res = "raised"

\* the last line whose handling ended was handled to the end by the handler
\* of command, and carried an address
Handled(command) ==
    /\ event.res = "done"
    /\ event.parsed.command = command
    /\ "device_id" \in DOMAIN event.parsed

EventKey == DeviceManagerId(event.parsed.device_type, event.parsed.device_id)

\* C8: after every application of an Add the index and the Registry hold
\* exactly one record of that device (its key), with status Connected.
C8_AddIdempotent ==
    (Handled(ZIGBEE_CMD_ADD) /\ event.parsed.device_type \in Classes) =>
        LET post == event.post
            a == event.parsed.device_id
        IN  /\ Cardinality({x \in DOMAIN post.idx : post.idx[x].device_id = EventKey}) = 1
            /\ Cardinality({k \in DOMAIN post.reg : post.reg[k].device_id = EventKey}) = 1
            /\ a \in DOMAIN post.idx
            /\ post.idx[a].status = DEVICE_STATUS_CONNECTED
            /\ EventKey \in DOMAIN post.reg
            /\ post.reg[EventKey].status = DEVICE_STATUS_CONNECTED

\* no record of the address before the event, in the index or the Registry
UnknownBefore ==
    /\ event.parsed.device_id \notin DOMAIN event.pre.idx
    /\ \A k \in DOMAIN event.pre.reg :
           event.pre.reg[k].zigbee_id # event.parsed.device_id

\* C9: a StateUpdate for an address that neither store knows leaves one
\* record more in the index and one more in the Registry, both for that
\* address, Connected, of category Light for a bulb and Switch for a switch
\* (sw included), and with light_state / switch_state true when the
\* subtype is 1.
C9_AutoCreate ==
    (Handled(ZIGBEE_CMD_STATE) /\ event.parsed.device_type \in Classes /\ UnknownBefore) =>
        LET pre == event.pre
            post == event.post
            a == event.parsed.device_id
            bulb == event.parsed.device_type = ZIGBEE_DEVICE_BULB
            category == IF bulb THEN DEVICE_CATEGORY_LIGHT ELSE DEVICE_CATEGORY_SWITCH
            Good(d) == /\ d.device_id = EventKey
                       /\ d.zigbee_id = a
                       /\ d.status = DEVICE_STATUS_CONNECTED
                       /\ d.category = category
                       /\ event.parsed.cmd_type = PyInt(1) =>
                              IF bulb THEN d.properties.light_state
                              ELSE d.properties.switch_state
        IN  /\ DOMAIN post.idx = DOMAIN pre.idx \cup {a}
            /\ DOMAIN post.reg = DOMAIN pre.reg \cup {EventKey}
            /\ EventKey \notin DOMAIN pre.reg
            /\ Good(post.idx[a])
            /\ Good(post.reg[EventKey])

\* the line "$AT+state sw 3 1 1" has created a switch that is on in an
\* empty Registry
C9_Witness ==
    /\ Handled(ZIGBEE_CMD_STATE)
    /\ event.parsed.device_type = ZIGBEE_DEVICE_SWITCH
    /\ event.parsed.cmd_type = PyInt(1)
    /\ DOMAIN event.pre.idx = {}
    /\ DOMAIN event.pre.reg = {}
    /\ event.post.reg[EventKey].category = DEVICE_CATEGORY_SWITCH
    /\ event.post.reg[EventKey].properties.switch_state

\* the device-updated signals sent while line n was handled
UpdatesOf(n) ==
    {i \in DOMAIN signals : signals[i].ev = n /\ signals[i].signal = SIGNAL_DEVICE_UPDATED}

\* C10: the handling of a StateUpdate with an address sends exactly one
\* device-updated signal and sets last_seen of the Registry's record to the
\* time of the event, whether the record was in the index, only in the
\* Registry, or made by the event; a StateUpdate that is discarded sends
\* none.
C10_NotifyOnce ==
    /\ Handled(ZIGBEE_CMD_STATE) =>
           LET key == event.post.idx[event.parsed.device_id].device_id
           IN  /\ Cardinality(UpdatesOf(event.n)) = 1
               /\ \A i \in UpdatesOf(event.n) : signals[i].device_id = key
               /\ event.post.reg[key].last_seen = event.at
    /\ event.res = "discarded" =>
           \A i \in DOMAIN signals : signals[i].ev # event.n

\* a StateUpdate for a record that only the Registry held has refreshed a
\* last_seen that was older
C10_Witness ==
    /\ Handled(ZIGBEE_CMD_STATE)
    /\ event.parsed.device_id \notin DOMAIN event.pre.idx
    /\ EventKey \in DOMAIN event.pre.reg
    /\ event.pre.reg[EventKey].last_seen < event.at
    /\ event.post.reg[EventKey].last_seen = event.at
    /\ Cardinality(UpdatesOf(event.n)) = 1

\* C11: once a StateUpdate of length 4 has been handled for an address, the
\* record of that address has supports_brightness = true, however the record
\* came to be and whatever 3-field StateUpdates came before.
C11_StickyBrightness ==
    (Handled(ZIGBEE_CMD_STATE) /\ event.parsed.supports_brightness) =>
        LET properties == event.post.idx[event.parsed.device_id].properties
        IN  /\ "supports_brightness" \in DOMAIN properties
            /\ properties.supports_brightness

(***************************************************************************)
(* The read loop fed with one stream of bytes that arrives in pieces       *)
(***************************************************************************)
\* the bytes a stream is made of, and its greatest length
FrameBytes == {"A", "\r", "\n", LeadByte, ContByte}
FrameLen == 4

Streams == UNION {[1..n -> FrameBytes] : n \in 0..FrameLen}

InitFrames ==
    /\ InitCodecIdle
    /\ wire \in [bytes : Streams, at : {0}]
    /\ SERIAL_AVAILABLE = TRUE
    /\ serial_port = DevTtyUSB0
    /\ InitCoordinator
    /\ InitEmptyRegistry
    /\ quota = [ZeroQuota EXCEPT !.start = 1]

\* the next k bytes of the stream reach the port
Arrive(k) ==
    /\ wire.at + k <= Len(wire.bytes)
    /\ \E i \in DOMAIN conns : conns[i].is_open /\ ~conns[i].broken
    /\ wire' = [wire EXCEPT !.at = @ + k]
    /\ rx' = rx \o SubSeq(wire.bytes, wire.at + 1, wire.at + k)
    /\ UNCHANGED <<codecVars, SERIAL_AVAILABLE, tx, now, coordVars, worldVars, calls, ret,
                   retry, quota>>

NextFrames ==
    \/ StartCall
    \/ \E t \in DOMAIN tasks : LoopPoll(t)
    \/ \E k \in 1..FrameLen : Arrive(k)

SpecFrames == InitFrames /\ [][NextFrames]_vars

\* the lines the loop hands to _handle_serial_message when all of bs is
\* there at one poll
DispatchedInOneRead(bs) ==
    ProcessLines([World EXCEPT !.dispatched = <<>>], decode(bs)).w.dispatched

\* C12: once the whole stream has been read, the lines dispatched are those
\* dispatched when the stream is read at once, wherever the reads have cut
\* the stream.
C12_Fragmentation ==
    (wire.at = Len(wire.bytes) /\ rx = <<>>) =>
        dispatched = DispatchedInOneRead(wire.bytes)

(***************************************************************************)
(* The coordinator fed with lines that it drops, between lines that make   *)
(* and change records                                                      *)
(***************************************************************************)
DroppedLines == {LineAddBulb1, LineBulb1On, LineNoise, LineStateBare, LineDelBulb,
                 LinePairBulb, LineAddNoAddress, LineStateNoAddress}
DropEvents == 3

InitDrop ==
    /\ InitCodecIdle
    /\ wire = NoWire
    /\ SERIAL_AVAILABLE = TRUE
    /\ serial_port = DevTtyUSB0
    /\ InitCoordinator
    /\ InitEmptyRegistry \/ InitStoredRegistry
    /\ quota = [ZeroQuota EXCEPT !.start = 1, !.stop = 1, !.line = DropEvents]

NextDrop ==
    \/ StartCall
    \/ StopCall
    \/ \E c \in DOMAIN calls : StopResume(c)
    \/ \E t \in DOMAIN tasks : LoopPoll(t)
    \/ \E t \in DOMAIN tasks : LoopResume(t)
    \/ \E t \in DOMAIN tasks : LoopCancelled(t)
    \/ \E line \in DroppedLines : Deliver(line)
    \/ HassRun

SpecDrop == InitDrop /\ [][NextDrop]_vars

\* no signal was sent while line n was handled
Silent(n, sent) == \A i \in DOMAIN sent : sent[i].ev # n

\* C13: the step that handles a line for which parse_command returns None
\* changes no record of the index or the Registry, sends no signal, ends no
\* read loop task and closes no link.
C13_UnparsedIgnored ==
    [][(event' # event /\ event'.res = "unparsed") =>
           /\ event'.post = event'.pre
           /\ Silent(event'.n, signals')
           /\ conns' = conns
           /\ \A t \in DOMAIN tasks : tasks[t].pc \in ActivePcs => tasks'[t].pc \in ActivePcs]_vars

\* the line "$AT+state" was dropped while the index held a record, and the
\* loop sleeps until its next poll with the link open
C13_Witness ==
    /\ event.res = "unparsed"
    /\ dispatched[event.n] = LineStateBare
    /\ DOMAIN _devices # {}
    /\ _running
    /\ \E t \in DOMAIN tasks : tasks[t].pc = "sleep"
    /\ Open(conns) # {}

(***************************************************************************)
(* Brightness: a caller builds and parses a line with the brightness of    *)
(* args, and the dongle sends a line with that brightness to a started     *)
(* coordinator                                                             *)
(***************************************************************************)
\* the line a dongle writes for the command of a: versioned for state,
\* legacy with a trailing brightness field otherwise; a numeral has no sign
DongleLine(a) ==
    IF a.brightness = None \/ a.brightness.neg THEN <<>>
    ELSE IF a.command = ZIGBEE_CMD_STATE
    THEN Words(<<AT(a.command), a.device_type, Num(4), str(a.device_id),
                 Num(IF a.state THEN 1 ELSE 0), str(a.brightness)>>) \o SERIAL_LINE_ENDING
    ELSE Words(<<AT(a.command), a.device_type, Num(2), Num(2), str(a.device_id),
                 str(a.brightness)>>) \o SERIAL_LINE_ENDING

\* the bytes that arrive at once
BrightChunk == 16

InitBright ==
    /\ args \in [command : {ZIGBEE_CMD_STATE, ZIGBEE_CMD_ADD}, device_type : Classes,
                 device_id : {PyInt(1)}, state : BOOLEAN,
                 brightness : Ints \cup {None}]
    /\ built = NoText
    /\ parsed = None
    /\ wire = [bytes |-> DongleLine(args), at |-> 0]
    /\ SERIAL_AVAILABLE = TRUE
    /\ serial_port = DevTtyUSB0
    /\ InitCoordinator
    /\ InitEmptyRegistry \/ InitStoredRegistry
    /\ quota = [ZeroQuota EXCEPT !.start = 1]

NextBright ==
    \/ Build
    \/ Parse
    \/ StartCall
    \/ \E k \in {BrightChunk, Len(wire.bytes) - wire.at} : k > 0 /\ Arrive(k)
    \/ \E t \in DOMAIN tasks : LoopPoll(t)
    \/ \E t \in DOMAIN tasks : LoopResume(t)
    \/ HassRun

SpecBright == InitBright /\ [][NextBright]_vars

\* the characters after the last space of a line without its ending
RECURSIVE LastField(_)
LastField(line) ==
    IF line = <<>> \/ line[Len(line)] = " " THEN <<>>
    ELSE Append(LastField(SubSeq(line, 1, Len(line) - 1)), line[Len(line)])

Clamped(b) == IF b.neg THEN PyInt(0) ELSE IF b.hi > 0 \/ b.lo > 255 THEN PyInt(255) ELSE b

\* C14: the brightness field of the line build_command returns, the
\* brightness of a parse_command result and the brightness a StateUpdate
\* stores in the record are each the brightness given, clamped to [0, 255].
C14_BrightnessClamped ==
    /\ (built # NoText /\ args.command = ZIGBEE_CMD_STATE /\ args.brightness # None) =>
           LastField(strip(built)) = str(Clamped(args.brightness))
    /\ (parsed # None /\ parsed.result # None /\ "brightness" \in DOMAIN parsed.result) =>
           parsed.result.brightness = Clamped(args.brightness)
    /\ (event.res = "done" /\ "brightness" \in DOMAIN event.parsed) =>
           event.parsed.brightness = Clamped(args.brightness)
    /\ (Handled(ZIGBEE_CMD_STATE) /\ "brightness" \in DOMAIN event.parsed) =>
           LET properties == event.post.idx[event.parsed.device_id].properties
           IN  "brightness" \in DOMAIN properties
               /\ properties.brightness = Clamped(args.brightness)

\* a brightness of 300 was built into a line and parsed back, and the dongle's
\* line with 300 was stored in the record
C14_Witness ==
    /\ args.brightness = PyInt(300)
    /\ parsed # None
    /\ parsed.result # None
    /\ "brightness" \in DOMAIN parsed.result
    /\ Handled(ZIGBEE_CMD_STATE)
    /\ "brightness" \in DOMAIN event.post.idx[event.parsed.device_id].properties

\* C15: the step that handles a Delete, or a command that is neither add nor
\* state, leaves the index and the Registry as they were and sends no signal;
\* and no step of the coordinator takes a record out of the index or the
\* Registry.
C15_NothingRemoved ==
    [][/\ DOMAIN _devices \subseteq DOMAIN _devices'
       /\ DOMAIN devices \subseteq DOMAIN devices'
       /\ (event' # event /\ event'.res \in {"logged", "unknown"}) =>
              /\ event'.post = event'.pre
              /\ Silent(event'.n, signals')]_vars

\* a Delete for bulbs was handled while the index held a bulb
C15_Witness ==
    /\ event.res = "logged"
    /\ event.parsed.command = ZIGBEE_CMD_DEL
    /\ event.parsed.device_type = ZIGBEE_DEVICE_BULB
    /\ DOMAIN _devices # {}
    /\ DOMAIN devices # {}

\* C20: an Add or a StateUpdate decoded without an address is dropped: the
\* index and the Registry are as before and no signal is sent for it.
C20_NoAddressDiscarded ==
    [][(event' # event /\ event'.res # "unparsed"
            /\ event'.parsed.command \in {ZIGBEE_CMD_ADD, ZIGBEE_CMD_STATE}
            /\ "device_id" \notin DOMAIN event'.parsed) =>
           /\ event'.res = "discarded"
           /\ event'.post = event'.pre
           /\ Silent(event'.n, signals')]_vars

\* an Add without address was dropped while the index held a record
C20_Witness ==
    /\ event.res = "discarded"
    /\ event.parsed.command = ZIGBEE_CMD_ADD
    /\ dispatched[event.n] = LineAddNoAddress
    /\ DOMAIN _devices # {}

(***************************************************************************)
(* Port discovery over the lists that comports may return                  *)
(***************************************************************************)
PortNames == {DevTtyUSB0, DevTtyUSB1, DevTtyACM0, DevTtyS0, DevTtyS1}
MaxPorts == 3

InitPorts ==
    /\ args \in [ports : UNION {[1..n -> PortNames] : n \in 0..MaxPorts}]
    /\ built = NoText
    /\ parsed = None
    /\ wire = NoWire
    /\ SERIAL_AVAILABLE = TRUE
    /\ serial_port = NoText
    /\ InitCoordinator
    /\ InitEmptyRegistry
    /\ quota = ZeroQuota

\* _find_serial_port returns for the list of args
Locate ==
    /\ parsed = None
    /\ parsed' = [result |-> _find_serial_port(args.ports)]
    /\ UNCHANGED <<args, built, wire, platformVars, coordVars, worldVars, calls, ret, retry,
                   quota>>

NextPorts == Locate

SpecPorts == InitPorts /\ [][NextPorts]_vars

Primary == {DevTtyUSB0, DevTtyUSB1}
Secondary == {DevTtyACM0}
At(ports, names) == {i \in DOMAIN ports : ports[i] \in names}
FirstAt(ports, at) == ports[CHOOSE i \in at : \A j \in at : i <= j]

\* the candidate that the selection policy names, or no text
Selected(ports) ==
    LET matching == At(ports, Primary \cup Secondary)
    IN  IF Cardinality(matching) = 1 THEN FirstAt(ports, matching)
        ELSE IF Cardinality(matching) > 1
        THEN IF At(ports, Primary) # {} THEN FirstAt(ports, At(ports, Primary))
             ELSE FirstAt(ports, matching)
        ELSE IF Len(ports) = 1 THEN ports[1]
        ELSE NoText

\* C16: port discovery returns the sole ttyUSB/ttyACM candidate; of several,
\* the first ttyUSB one, else the first of them; the only candidate when none
\* matches; and nothing otherwise. The result is nothing or a listed path.
C16_PortSelection ==
    parsed # None =>
        /\ parsed.result = Selected(args.ports)
        /\ parsed.result = NoText \/ \E i \in DOMAIN args.ports : args.ports[i] = parsed.result

\* [/dev/ttyUSB0, /dev/ttyS0] has yielded /dev/ttyUSB0
C16_Witness ==
    /\ args.ports = <<DevTtyUSB0, DevTtyS0>>
    /\ parsed # None
    /\ parsed.result = DevTtyUSB0

(***************************************************************************)
(* The test tool, test_zigbee_serial.py                                    *)
(***************************************************************************)
CMD_PREFIX == <<"$", "A", "T">>
CMD_ADD == <<"a", "d", "d">>
CMD_DEL == <<"d", "e", "l">>
CMD_STATE == <<"s", "t", "a", "t", "e">>
CMD_PAIR == <<"p", "a", "i", "r">>
DEVICE_BULB == <<"b", "u", "l", "b">>
DEVICE_SWITCH == <<"s", "w", "i", "t", "c", "h">>
LINE_ENDING == <<"\r", "\n">>

ValueError == [raised |-> TRUE, line |-> NoText]
Returns(line) == [raised |-> FALSE, line |-> line]

\* build_command of the test tool, lines 44-85
tool_build_command(command, device_type, device_id, state, brightness) ==
    LET type_code == IF device_type = DEVICE_BULB THEN 2 ELSE 3
        device_type_code == IF device_type = DEVICE_BULB THEN 0 ELSE 1
        device_type_name == IF device_type = DEVICE_SWITCH THEN <<"s", "w">> ELSE device_type
    IN  IF command = CMD_PAIR
        THEN Returns(CMD_PREFIX \o <<"+">> \o command \o LINE_ENDING)
        ELSE IF command = CMD_ADD
        THEN IF device_type \notin {DEVICE_BULB, DEVICE_SWITCH} THEN ValueError
             ELSE IF device_id = None THEN ValueError
             ELSE Returns(CMD_PREFIX \o <<"+">> \o command \o Sp \o device_type \o Sp
                              \o str(PyInt(2)) \o Sp \o str(PyInt(type_code)) \o Sp
                              \o str(device_id) \o LINE_ENDING)
        ELSE IF command = CMD_DEL
        THEN IF device_type \notin {DEVICE_BULB, DEVICE_SWITCH} THEN ValueError
             ELSE Returns(CMD_PREFIX \o <<"+">> \o command \o Sp \o device_type \o Sp
                              \o str(PyInt(1)) \o Sp \o str(PyInt(type_code)) \o LINE_ENDING)
        ELSE IF command = CMD_STATE
        THEN IF device_type \notin {DEVICE_BULB, DEVICE_SWITCH} THEN ValueError
             ELSE IF device_id = None THEN ValueError
             ELSE IF brightness # None
             THEN Returns(CMD_PREFIX \o <<"+">> \o command \o Sp \o device_type_name \o Sp
                              \o str(PyInt(4)) \o Sp \o str(BitAnd32(device_id)) \o Sp
                              \o str(PyInt(device_type_code)) \o Sp \o str(PyInt(3)) \o Sp
                              \o str(Clamp255(brightness)) \o LINE_ENDING)
             ELSE Returns(CMD_PREFIX \o <<"+">> \o command \o Sp \o device_type_name \o Sp
                              \o str(PyInt(3)) \o Sp \o str(BitAnd32(device_id)) \o Sp
                              \o str(PyInt(device_type_code)) \o Sp
                              \o str(PyInt(IF state THEN 1 ELSE 0)) \o LINE_ENDING)
        ELSE ValueError

\* the documented wire line of a command, character by character
Dollar == <<"$", "A", "T", "+">>
CodeOf(class) == IF class = <<"b", "u", "l", "b">> THEN <<"2">> ELSE <<"3">>
Bit(state) == IF state THEN <<"1">> ELSE <<"0">>
Level(b) == IF b.neg THEN <<"0">> ELSE IF b.hi > 0 \/ b.lo > 255 THEN <<"2", "5", "5">> ELSE str(b)
Documented(a) ==
    IF a.command = <<"p", "a", "i", "r">> THEN Dollar \o <<"p", "a", "i", "r", "\r", "\n">>
    ELSE IF a.command = <<"a", "d", "d">>
    THEN Dollar \o <<"a", "d", "d", " ">> \o a.device_type \o <<" ", "2", " ">>
             \o CodeOf(a.device_type) \o <<" ">> \o str(a.device_id) \o <<"\r", "\n">>
    ELSE IF a.command = <<"d", "e", "l">>
    THEN Dollar \o <<"d", "e", "l", " ">> \o a.device_type \o <<" ", "1", " ">>
             \o CodeOf(a.device_type) \o <<"\r", "\n">>
    ELSE IF a.brightness = None
    THEN Dollar \o <<"s", "t", "a", "t", "e", " ">> \o a.device_type \o <<" ", "3", " ">>
             \o str(a.device_id) \o <<" ">> \o Bit(a.state) \o <<"\r", "\n">>
    ELSE Dollar \o <<"s", "t", "a", "t", "e", " ">> \o a.device_type \o <<" ", "4", " ">>
             \o str(a.device_id) \o <<" ">> \o Bit(a.state) \o <<" ">> \o Level(a.brightness)
             \o <<"\r", "\n">>

\* the line ends with CR LF and has no other CR or LF
OneLineEnding(line) ==
    /\ Len(line) >= 2
    /\ line[Len(line) - 1] = "\r"
    /\ line[Len(line)] = "\n"
    /\ \A i \in 1..(Len(line) - 2) : line[i] \notin {"\r", "\n"}

\* the command of args has the address its kind carries
Addressed == args.command \in {ZIGBEE_CMD_ADD, ZIGBEE_CMD_STATE} => args.device_id # None

\* C17: build_command returns the documented line of each kind, ended by one
\* CR LF, and for Pair, Add and Delete the line that the test tool builds.
C17_WireLines ==
    (built # NoText /\ Addressed) =>
        /\ built = Documented(args)
        /\ OneLineEnding(built)
        /\ args.command \in {ZIGBEE_CMD_PAIR, ZIGBEE_CMD_ADD, ZIGBEE_CMD_DEL} =>
               tool_build_command(args.command, args.device_type, args.device_id,
                                  args.state, args.brightness) = Returns(built)

\* a state line was built with brightness 0: the form of four fields
C17_Witness ==
    /\ args.command = ZIGBEE_CMD_STATE
    /\ args.device_id = PyInt(1)
    /\ args.brightness = PyInt(0)
    /\ built = Dollar \o <<"s", "t", "a", "t", "e", " ">> \o args.device_type
                 \o <<" ", "4", " ", "1", " ">> \o Bit(args.state) \o <<" ", "0", "\r", "\n">>

(***************************************************************************)
(* parse_command over the lines of a command token, a class token and up   *)
(* to MaxFields numeric fields                                             *)
(***************************************************************************)
Numerals == {Num(1), Num(2), Num(3), Num(4),
             <<"4", "2", "9", "4", "9", "6", "7", "2", "9", "7">>}
MaxFields == 4
ClassTokens == {ZIGBEE_DEVICE_BULB, ZIGBEE_DEVICE_SWITCH, <<"s", "w">>}

\* the line of a command token, a class token and numeric fields
TokenLine(a) == Words(<<AT(a.command), a.device_type>> \o a.fields) \o SERIAL_LINE_ENDING

InitParse ==
    /\ args \in [command : Commands, device_type : ClassTokens,
                 fields : UNION {[1..n -> Numerals] : n \in 0..MaxFields}]
    /\ built = TokenLine(args)
    /\ parsed = None
    /\ wire = NoWire
    /\ SERIAL_AVAILABLE = TRUE
    /\ serial_port = NoText
    /\ InitCoordinator
    /\ InitEmptyRegistry
    /\ quota = ZeroQuota

NextParse == Parse

SpecParse == InitParse /\ [][NextParse]_vars

\* the value of a numeric field, and reduced modulo 2^32
Field(i) == int(args.fields[i])
Mod32(n) == [neg |-> FALSE, hi |-> n.hi % Limb, lo |-> n.lo]
Decoded == parsed # None /\ parsed.result # None
Versioned == args.command = ZIGBEE_CMD_STATE /\ Len(args.fields) >= 3

\* C18: an address in a result of parse_command, under either grammar, is the
\* address field of the line modulo 2^32, an unsigned value of 32 bits.
C18_AddressMasked ==
    (Decoded /\ "device_id" \in DOMAIN parsed.result) =>
        /\ Unsigned32(parsed.result.device_id)
        /\ parsed.result.device_id = Mod32(Field(IF Versioned THEN 2 ELSE 3))

\* C19: a line whose command token is not state is decoded by the legacy
\* grammar, the second numeric field the type code and the third the address,
\* however many fields it has; a state line of three or more numeric fields
\* is decoded by the versioned grammar: length, address, subtype.
C19_GrammarChoice ==
    /\ (Decoded /\ args.command # ZIGBEE_CMD_STATE) =>
           /\ "type" \in DOMAIN parsed.result
           /\ "cmd_type" \notin DOMAIN parsed.result
           /\ parsed.result.length = Field(1)
           /\ parsed.result.type = Field(2)
           /\ Len(args.fields) >= 3 =>
                  /\ "device_id" \in DOMAIN parsed.result
                  /\ Mod32(parsed.result.device_id) = Mod32(Field(3))
    /\ (parsed # None /\ Versioned) =>
           /\ parsed.result # None
           /\ "type" \notin DOMAIN parsed.result
           /\ parsed.result.length = Field(1)
           /\ parsed.result.device_id = Mod32(Field(2))
           /\ parsed.result.cmd_type = Field(3)

\* "$AT+add bulb 4 2 1 3", five fields and more, was decoded as an Add of
\* type code 2 for address 1
C19_Witness ==
    /\ args.command = ZIGBEE_CMD_ADD
    /\ args.fields = <<Num(4), Num(2), Num(1), Num(3)>>
    /\ Decoded
    /\ parsed.result.type = PyInt(2)
    /\ parsed.result.device_id = PyInt(1)

(***************************************************************************)
(* The index and the Registry                                              *)
(***************************************************************************)
\* the record that the index holds at address a, and its composite key
IndexRecord(a) == heap[_devices[a]]
KeyAt(a) == IndexRecord(a).device_id

\* C21: in every state, the suspension points of the handlers included, the
\* Registry holds a record under the composite key of every record of the
\* index.
C21_IndexedIsRegistered ==
    \A a \in DOMAIN _devices : KeyAt(a) \in DOMAIN devices

\* a handler is suspended in add_device for the record it has just entered
\* in the index
C21_Witness ==
    \E t \in DOMAIN tasks :
        /\ tasks[t].pc = "save"
        /\ tasks[t].frame.parsed.device_id \in DOMAIN _devices
        /\ KeyAt(tasks[t].frame.parsed.device_id) \in DOMAIN devices

\* the index record of the event's address and the Registry record under its
\* key have, after the event, the same status and the same property bag
Converged ==
    LET r == event.post.idx[event.parsed.device_id]
        g == event.post.reg[r.device_id]
    IN  /\ r.status = g.status
        /\ r.properties = g.properties

\* C22: after an Add or a StateUpdate has been handled for an address, the
\* index record of the address and the Registry record under its composite
\* key agree on the status and on the whole property bag.
C22_CopiesConverge ==
    (Handled(ZIGBEE_CMD_ADD) \/ Handled(ZIGBEE_CMD_STATE)) => Converged

\* the event's address was not in the index and its key was in the Registry
RegistryOnlyBefore ==
    /\ event.parsed.device_id \notin DOMAIN event.pre.idx
    /\ EventKey \in DOMAIN event.pre.reg

\* C23: an Add or a StateUpdate for an address that the index lacks while
\* the Registry holds its composite key makes no Registry record: the
\* Registry has the records it had, and the index holds at that address the
\* very dict of the Registry.
C23_RegistryReused ==
    ((Handled(ZIGBEE_CMD_ADD) \/ Handled(ZIGBEE_CMD_STATE)) /\ RegistryOnlyBefore) =>
        /\ DOMAIN event.post.reg = DOMAIN event.pre.reg
        /\ event.post.rref[EventKey] = event.pre.rref[EventKey]
        /\ event.parsed.device_id \in DOMAIN event.post.idx
        /\ event.post.iref[event.parsed.device_id] = event.post.rref[EventKey]

\* an Add for bulb 1 has found the stored record of the Registry
C23_Witness ==
    /\ Handled(ZIGBEE_CMD_ADD)
    /\ RegistryOnlyBefore
    /\ EventKey = StoredKey
    /\ event.post.iref[event.parsed.device_id] = event.post.rref[StoredKey]

\* the event has made the record of its address
CreatedByEvent ==
    /\ (Handled(ZIGBEE_CMD_ADD) \/ Handled(ZIGBEE_CMD_STATE))
    /\ event.parsed.device_id \notin DOMAIN event.pre.idx
    /\ EventKey \notin DOMAIN event.pre.reg

\* a record made by an event has the key of the event, in both stores
KeyOfCreator ==
    CreatedByEvent =>
        /\ event.post.idx[event.parsed.device_id].device_id = EventKey
        /\ event.post.reg[EventKey].device_id = EventKey

\* the step leaves the key of every record as it is
KeyUnchanged ==
    \A r \in DOMAIN heap :
        "device_id" \in DOMAIN heap[r] => heap'[r].device_id = heap[r].device_id

\* the index holds at address a a record of mesh address a
AddressOfIndex == \A a \in DOMAIN _devices : IndexRecord(a).zigbee_id = a

\* C24: a record made by the coordinator has the key zigbee_<class>_<address>
\* of the event that made it, no step changes the key of a record, and the
\* record that the index holds at address a has the mesh address a.
C24_KeyStable == [][KeyUnchanged /\ KeyOfCreator' /\ AddressOfIndex']_vars

(***************************************************************************)
(* StateUpdates of every class token, length, subtype and brightness, sent *)
(* to a started coordinator after an earlier line                          *)
(***************************************************************************)
Subtypes == {PyInt(0), PyInt(1), PyInt(2), PyInt(3)}
Levels == {None, PyInt(0), PyInt(128), PyInt(300)}

\* the state line of a: class token, length, address 1, subtype and, if
\* given, a brightness field
StateLine(a) ==
    Words(<<AT(ZIGBEE_CMD_STATE), a.device_type, str(a.length), Num(1), str(a.cmd_type)>>
          \o (IF a.brightness = None THEN <<>> ELSE <<str(a.brightness)>>))
        \o SERIAL_LINE_ENDING

\* what the dongle has sent before
Earlier == {<<>>,
            Words(<<AT(ZIGBEE_CMD_STATE), SW, Num(3), Num(1), Num(3)>>) \o SERIAL_LINE_ENDING,
            Words(<<AT(ZIGBEE_CMD_STATE), ZIGBEE_DEVICE_BULB, Num(4), Num(1), Num(1), Num(200)>>)
                \o SERIAL_LINE_ENDING}

InitSubtype ==
    /\ args \in [device_type : ClassTokens, length : {PyInt(3), PyInt(4)},
                 cmd_type : Subtypes, brightness : Levels]
    /\ built = StateLine(args)
    /\ parsed = None
    /\ \E earlier \in Earlier : wire = [bytes |-> earlier \o StateLine(args), at |-> 0]
    /\ SERIAL_AVAILABLE = TRUE
    /\ serial_port = DevTtyUSB0
    /\ InitCoordinator
    /\ InitEmptyRegistry \/ InitStoredRegistry
    /\ quota = [ZeroQuota EXCEPT !.start = 1]

NextSubtype ==
    \/ Parse
    \/ StartCall
    \/ \E k \in {BrightChunk, Len(wire.bytes) - wire.at} : k > 0 /\ Arrive(k)
    \/ \E t \in DOMAIN tasks : LoopPoll(t)
    \/ \E t \in DOMAIN tasks : LoopResume(t)
    \/ HassRun

SpecSubtype == InitSubtype /\ [][NextSubtype]_vars

\* the subtype is 1 or 3
Activated(c) == c \in {PyInt(1), PyInt(3)}

\* the StateUpdate carries brightness data
WithBrightness == event.parsed.length = PyInt(4) /\ "brightness" \in DOMAIN event.parsed

\* C25: after a StateUpdate of subtype c, a switch has switch_state =
\* (c is 1 or 3) and keeps c itself as cmd_type; a bulb without brightness
\* data has light_state = (c = 1); a bulb with brightness data has light_state
\* = (c is 1 or 3) and the brightness of the line, clamped.
C25_SubtypeMapping ==
    Handled(ZIGBEE_CMD_STATE) =>
        LET c == event.parsed.cmd_type
            properties == event.post.idx[event.parsed.device_id].properties
        IN  /\ event.parsed.device_type = ZIGBEE_DEVICE_SWITCH =>
                   /\ properties.switch_state = Activated(c)
                   /\ properties.cmd_type = c
            /\ (event.parsed.device_type = ZIGBEE_DEVICE_BULB /\ ~WithBrightness) =>
                   properties.light_state = (c = PyInt(1))
            /\ (event.parsed.device_type = ZIGBEE_DEVICE_BULB /\ WithBrightness) =>
                   /\ properties.light_state = Activated(c)
                   /\ properties.brightness = Clamped(event.parsed.brightness)

\* "$AT+state sw 3 1 3" was handled after a line: the switch is on and its
\* subtype 3 is in the property bag
C25_Witness ==
    /\ Handled(ZIGBEE_CMD_STATE)
    /\ event.n = 2
    /\ args.device_type = SW
    /\ event.parsed.device_type = ZIGBEE_DEVICE_SWITCH
    /\ event.parsed.cmd_type = PyInt(3)
    /\ event.post.idx[event.parsed.device_id].properties.switch_state
    /\ event.post.idx[event.parsed.device_id].properties.cmd_type = PyInt(3)

\* C26: for a versioned STATE line parse_command turns the class token sw
\* into switch, sets supports_brightness exactly when the length field is 4,
\* and has a brightness in its result exactly when the length field is 4 and
\* an extra numeric field, 0 included, is present; an extra field on a line
\* of another length is dropped.
C26_VersionedState ==
    parsed # None =>
        /\ parsed.result # None
        /\ parsed.result.device_type =
               (IF args.device_type = SW THEN ZIGBEE_DEVICE_SWITCH ELSE args.device_type)
        /\ parsed.result.supports_brightness = (args.length = PyInt(4))
        /\ "brightness" \in DOMAIN parsed.result
               <=> (args.length = PyInt(4) /\ args.brightness # None)

\* "$AT+state sw 4 1 c 0" is decoded: a switch with brightness 0
C26_Witness ==
    /\ args.device_type = SW
    /\ args.length = PyInt(4)
    /\ args.brightness = PyInt(0)
    /\ parsed # None
    /\ parsed.result.device_type = ZIGBEE_DEVICE_SWITCH
    /\ parsed.result.supports_brightness
    /\ parsed.result.brightness = PyInt(0)

(***************************************************************************)
(* The lines of a text                                                     *)
(***************************************************************************)
\* where the terminators of s begin, in order
Terminators(s) ==
    SelectSeq([k \in 1..(Len(s) - Len(SERIAL_LINE_ENDING) + 1) |-> k],
              LAMBDA k : SubSeq(s, k, k + Len(SERIAL_LINE_ENDING) - 1) = SERIAL_LINE_ENDING)

\* the terminated segments of s, without their terminator, and what follows
\* the last terminator
Segments(s) ==
    LET at == Terminators(s)
        From(i) == IF i = 1 THEN 1 ELSE at[i - 1] + Len(SERIAL_LINE_ENDING)
    IN  [i \in 1..Len(at) |-> SubSeq(s, From(i), at[i] - 1)]

Remainder(s) ==
    LET at == Terminators(s)
    IN  IF at = <<>> THEN s
        ELSE SubSeq(s, at[Len(at)] + Len(SERIAL_LINE_ENDING), Len(s))

\* the bytes that the loop has read from the link, as text
ReadSoFar == decode(SubSeq(wire.bytes, 1, wire.at - Len(rx)))

\* C27: after any sequence of reads the lines dispatched are the terminated
\* segments of everything read, in order and without their terminator, those
\* that are blank after trimming left out; the unterminated tail stays in the
\* buffer and is not dispatched.
C27_Framing ==
    /\ dispatched = SelectSeq(Segments(ReadSoFar), LAMBDA line : strip(line) # <<>>)
    /\ \A t \in DOMAIN tasks : tasks[t].buffer = Remainder(ReadSoFar)

(***************************************************************************)
(* A coordinator that keeps running: lines arrive, an await may raise, and *)
(* the event loop runs the read task whenever it can run                   *)
(***************************************************************************)
RelayLines == 2
RelayFaults == 1

RelayedLines == {LineAddBulb1, LineBulb1On, LineNoise}

InitRelay ==
    /\ InitCodecIdle
    /\ wire = NoWire
    /\ SERIAL_AVAILABLE = TRUE
    /\ serial_port = DevTtyUSB0
    /\ InitCoordinator
    /\ InitEmptyRegistry \/ InitStoredRegistry
    /\ quota = [ZeroQuota EXCEPT !.start = 1, !.line = RelayLines, !.fault = RelayFaults]

NextRelay ==
    \/ StartCall
    \/ \E t \in DOMAIN tasks : LoopPoll(t)
    \/ \E t \in DOMAIN tasks : LoopResume(t)
    \/ \E line \in RelayedLines : Deliver(line)
    \/ HassRun

\* a turn of some read loop would change the state: the conditions of
\* LoopPoll under which the task does not just go back to the same sleep
CanPoll ==
    \E t \in DOMAIN tasks :
        /\ tasks[t].pc \in {"created", "sleep", "backoff"}
        /\ ~tasks[t].cancel
        /\ IF ~_running THEN TRUE
           ELSE IF serial_connection # 0 /\ conns[serial_connection].is_open
           THEN \/ quota.fault > 0
                \/ IF conns[serial_connection].broken
                   THEN tasks[t] # OnException(tasks[t])
                   ELSE rx = <<>> => tasks[t].pc # "sleep"
           ELSE tasks[t].pc # "sleep"

\* some read loop is suspended in add_device and can go on
CanResume == \E t \in DOMAIN tasks : tasks[t].pc = "save" /\ ~tasks[t].cancel

Polls == \E t \in DOMAIN tasks : LoopPoll(t)
Resumes == \E t \in DOMAIN tasks : LoopResume(t)

\* the read task is run after each of its sleeps and when its await is
\* over (weak fairness of Polls and of Resumes, with CanPoll and CanResume
\* for ENABLED <<Polls>>_vars and ENABLED <<Resumes>>_vars), and so are the
\* tasks that the handlers have created, WF_vars(HassRun); the dongle is not
\* bound to send anything
SpecRelay ==
    /\ InitRelay
    /\ [][NextRelay]_vars
    /\ ([]<>(~CanPoll) \/ []<><<Polls>>_vars)
    /\ ([]<>(~CanResume) \/ []<><<Resumes>>_vars)
    /\ WF_vars(HassRun)

\* the complete lines, not blank, that a loop has read and holds in its buffer
Held(t) == SelectSeq(Segments(tasks[t].buffer), LAMBDA line : strip(line) # <<>>)

\* how many complete lines that are not blank have been read from the link
LinesRead ==
    Len(dispatched)
        + (IF \E t \in DOMAIN tasks : Held(t) # <<>>
           THEN Len(Held(CHOOSE t \in DOMAIN tasks : Held(t) # <<>>)) ELSE 0)

\* C28: while the coordinator runs, every complete line that is not blank and
\* has been read from the link is dispatched in the end, whether or not more
\* bytes arrive, also when it was read together with a line whose handling
\* raised.
C28_ReadIsDispatched ==
    \A n \in 1..RelayLines : (LinesRead >= n) ~> (Len(dispatched) >= n)

(***************************************************************************)
(* A coordinator that is started, and may be started again, while lines    *)
(* arrive                                                                  *)
(***************************************************************************)
TwiceStarts == 2
TwiceLines == 2

TwiceLinesSent == {LineAddBulb1, LineAddSwitch1, LineBulb1On}

InitTwice ==
    /\ InitCodecIdle
    /\ wire = NoWire
    /\ SERIAL_AVAILABLE = TRUE
    /\ serial_port = DevTtyUSB0
    /\ InitCoordinator
    /\ InitEmptyRegistry
    /\ quota = [ZeroQuota EXCEPT !.start = TwiceStarts, !.line = TwiceLines]

NextTwice ==
    \/ StartCall
    \/ \E t \in DOMAIN tasks : LoopPoll(t)
    \/ \E t \in DOMAIN tasks : LoopResume(t)
    \/ \E line \in TwiceLinesSent : Deliver(line)
    \/ HassRun

SpecTwice == InitTwice /\ [][NextTwice]_vars

\* the step hands a line to _handle_serial_message
Begins == Len(dispatched') > Len(dispatched)

\* task t is suspended in the handling of a line before and after the step
StaysSuspended(t) ==
    /\ tasks[t].pc = "save"
    /\ t \in DOMAIN tasks'
    /\ tasks'[t].pc = "save"
    /\ tasks'[t].frame.n = tasks[t].frame.n

\* C29: lines are handled one at a time: no step begins the handling of a
\* line while the handling of an earlier line is suspended in add_device and
\* has neither completed nor failed.
C29_OneAtATime ==
    [][Begins => ~\E t \in DOMAIN tasks : StaysSuspended(t)]_vars

(***************************************************************************)
(* The operations on the link one by one: a turn of the read loop is its   *)
(* check of in_waiting and then its read, a send is its check of is_open   *)
(* and then its write.  The event loop runs one coroutine at a time and    *)
(* takes another only where the running one awaits; the dongle sends when  *)
(* it likes.                                                               *)
(***************************************************************************)
LinkLines == 2
LinkSends == 1

LinkLinesSent == {LineNoise, LineBulb1On}
SendOps == {"send_pairing_command", "send_control_command"}

\* an await of the read loop between the check and the read
AtAwaitAlways(pc) == TRUE

\* a read loop at pc is suspended at an await (lines 339, 347, 352) or has
\* not run yet; between in_waiting (line 329) and read (line 331) there is
\* none
AtAwait(pc) == pc # "checked"

\* no coroutine is in the middle of its run: _write_serial has no await
RunsNothing ==
    /\ \A t \in DOMAIN tasks : AtAwait(tasks[t].pc)
    /\ \A c \in DOMAIN calls : calls[c].op \notin SendOps

InitLink ==
    /\ InitCodecIdle
    /\ wire = NoWire
    /\ SERIAL_AVAILABLE = TRUE
    /\ serial_port = DevTtyUSB0
    /\ InitCoordinator
    /\ InitEmptyRegistry
    /\ quota = [ZeroQuota EXCEPT !.start = 1, !.line = LinkLines, !.send = LinkSends]

\* lines 326-330: the loop is run, finds the link open and asks in_waiting
PollCheck(t) ==
    /\ tasks[t].pc \in {"created", "sleep", "backoff"}
    /\ ~tasks[t].cancel
    /\ RunsNothing
    /\ _running /\ serial_connection # 0 /\ conns[serial_connection].is_open
    /\ tasks' = [tasks EXCEPT ![t] =
                     IF rx = <<>> THEN [@ EXCEPT !.pc = "sleep"]
                     ELSE [@ EXCEPT !.pc = "checked",
                                    !.frame = [handler |-> "none", bytes_waiting |-> Len(rx)]]]
    /\ UNCHANGED <<codecVars, wire, platformVars, serial_port, serial_connection, _running,
                   _read_task, conns, worldVars, calls, ret, retry, quota>>

\* lines 331-339: read(bytes_waiting), decode, and the lines of the buffer
PollRead(t) ==
    /\ tasks[t].pc = "checked"
    /\ LET n == tasks[t].frame.bytes_waiting
           Processed(r) ==
               /\ SetWorld(r.w)
               /\ tasks' = [tasks EXCEPT ![t] = AfterLines(@, r)]
       IN  /\ rx' = SubSeq(rx, n + 1, Len(rx))
           /\ Processed(ProcessLines(World, tasks[t].buffer \o decode(SubSeq(rx, 1, n))))
    /\ UNCHANGED <<codecVars, wire, SERIAL_AVAILABLE, tx, now, serial_port, serial_connection,
                   _running, _read_task, conns, calls, ret, retry, quota>>

\* lines 580-583: _write_serial up to its check of the connection; without
\* an open connection it logs the error and the send returns
WriteCheck(op, data) ==
    /\ quota.send > 0
    /\ RunsNothing
    /\ quota' = [quota EXCEPT !.send = @ - 1]
    /\ IF serial_connection # 0 /\ conns[serial_connection].is_open
       THEN /\ calls' = Append(calls, [op |-> op, task |-> 0, data |-> data])
            /\ UNCHANGED <<tx, ret>>
       ELSE /\ _write_serial(op, data, FALSE)
            /\ UNCHANGED calls
    /\ UNCHANGED <<codecVars, wire, SERIAL_AVAILABLE, rx, now, coordVars, worldVars, retry>>

\* lines 583-584: serial_connection.write(encoded_data), and the send returns
WriteBytes(c) ==
    /\ calls[c].op \in SendOps
    /\ _write_serial(calls[c].op, calls[c].data, FALSE)
    /\ calls' = Remove(calls, c)
    /\ UNCHANGED <<codecVars, wire, SERIAL_AVAILABLE, rx, now, coordVars, worldVars, retry,
                   quota>>

NextLink ==
    \/ RunsNothing /\ StartCall
    \/ \E t \in DOMAIN tasks : PollCheck(t)
    \/ \E t \in DOMAIN tasks : PollRead(t)
    \/ \E t \in DOMAIN tasks : RunsNothing /\ LoopResume(t)
    \/ WriteCheck("send_pairing_command",
                  build_command(ZIGBEE_CMD_PAIR, <<>>, None, FALSE, None))
    \/ WriteCheck("send_control_command",
                  build_command(ZIGBEE_CMD_STATE, ZIGBEE_DEVICE_BULB, PyInt(1), TRUE, None))
    \/ \E c \in DOMAIN calls : WriteBytes(c)
    \/ \E line \in LinkLinesSent : Deliver(line)
    \/ RunsNothing /\ HassRun

SpecLink == InitLink /\ [][NextLink]_vars

\* the step is a check or a read of some read loop
PollStep ==
    \E t \in DOMAIN tasks :
        /\ tasks[t].pc \in {"created", "sleep", "backoff", "checked"}
        /\ tasks'[t] # tasks[t]

\* C30: no step writes to the link while a read loop is between its check
\* of in_waiting and its read, and no step of a read loop is taken while a
\* send is between its check of the connection and its write.
C30_NoInterleaving ==
    [][/\ tx' # tx => \A t \in DOMAIN tasks : tasks[t].pc # "checked"
       /\ PollStep => \A c \in DOMAIN calls : calls[c].op \notin SendOps]_vars

\* a send has written and a read loop is between its check and its read,
\* with more bytes on the link than it has counted
C30_Witness ==
    /\ tx # <<>>
    /\ \E t \in DOMAIN tasks :
           tasks[t].pc = "checked" /\ tasks[t].frame.bytes_waiting < Len(rx)

(***************************************************************************)
(* Status after a StateUpdate                                              *)
(***************************************************************************)
\* C31: after a StateUpdate with an address has been reconciled, the record
\* of the Registry under the composite key of the event has status
\* connected, also when it was offline in the Registry and not in the index
\* when the event arrived.
C31_SeenIsConnected ==
    (Handled(ZIGBEE_CMD_STATE) /\ EventKey \in DOMAIN event.post.reg) =>
        event.post.reg[EventKey].status = DEVICE_STATUS_CONNECTED

(***************************************************************************)
(* The signals of the Registry                                             *)
(***************************************************************************)
\* the places in signals where the device-added signal was sent for key
AddedFor(key) ==
    {i \in DOMAIN signals : signals[i].signal = SIGNAL_DEVICE_ADDED /\ signals[i].device_id = key}

\* C32: whatever Add and StateUpdate events have been handled, the
\* device-added signal has been sent at most once for each composite key.
C32_AddedOnce ==
    \A i \in DOMAIN signals : Cardinality(AddedFor(signals[i].device_id)) <= 1

(***************************************************************************)
(* What an event leaves alone                                              *)
(***************************************************************************)
\* C33: an Add or a StateUpdate for a class and an address changes no record
\* but the one under the composite key of that class and address: the
\* records of the Registry under other keys, the records of the index at
\* other addresses and a record of another class at the same address are
\* as they were.
C33_OthersUntouched ==
    (Handled(ZIGBEE_CMD_ADD) \/ Handled(ZIGBEE_CMD_STATE)) =>
        LET pre == event.pre
            post == event.post
            a == event.parsed.device_id
        IN  /\ \A k \in DOMAIN pre.reg \ {EventKey} :
                   k \in DOMAIN post.reg /\ post.reg[k] = pre.reg[k]
            /\ \A x \in DOMAIN pre.idx \ {a} :
                   x \in DOMAIN post.idx /\ post.idx[x] = pre.idx[x]
            /\ (a \in DOMAIN pre.idx /\ pre.idx[a].device_id # EventKey) =>
                   post.idx[a] = pre.idx[a]

(***************************************************************************)
(* One start and the stops that follow it: no start is issued after a stop *)
(***************************************************************************)
HaltStops == 2
HaltLines == 1

InitHalt ==
    /\ InitCodecIdle
    /\ wire = NoWire
    /\ SERIAL_AVAILABLE \in BOOLEAN
    /\ serial_port \in {NoText, DevTtyUSB0}
    /\ InitCoordinator
    /\ InitEmptyRegistry \/ InitStoredRegistry
    /\ quota = [ZeroQuota EXCEPT !.start = 1, !.stop = HaltStops, !.line = HaltLines]

NextHalt ==
    \/ StartCall
    \/ \E c \in DOMAIN calls : StartResume(c)
    \/ quota.start = 0 /\ StopCall
    \/ \E c \in DOMAIN calls : StopResume(c)
    \/ \E t \in DOMAIN tasks : LoopPoll(t)
    \/ \E t \in DOMAIN tasks : LoopResume(t)
    \/ \E t \in DOMAIN tasks : LoopCancelled(t)
    \/ \E line \in {LineAddBulb1, LineNoise} : Deliver(line)
    \/ HassRun

SpecHalt == InitHalt /\ [][NextHalt]_vars

\* a stop has been issued and every call has returned
StoppedLast == quota.stop < HaltStops /\ calls = <<>>

\* C34: when no start is issued after a stop, then once all calls have
\* returned the link is closed and no read loop runs, also when the stop ran
\* while the start was suspended in port discovery.
C34_StopWins ==
    StoppedLast => (Open(conns) = {} /\ Active(tasks) = {})

(***************************************************************************)
(* The lines of the test tool, read by the coordinator's parser            *)
(***************************************************************************)
\* the test tool builds the line of args, unless it raises ValueError
ToolBuild ==
    /\ args # None
    /\ built = NoText
    /\ LET Built(r) == ~r.raised /\ built' = r.line
       IN  Built(tool_build_command(args.command, args.device_type, args.device_id,
                                    args.state, args.brightness))
    /\ UNCHANGED <<args, parsed, wire, platformVars, coordVars, worldVars, calls, ret, retry,
                   quota>>

NextTool == ToolBuild \/ Parse

SpecTool == InitCodec /\ [][NextTool]_vars

\* C35: the STATE line that the test tool builds for a class, an address
\* and an on/off state is decoded by parse_command to that class and
\* address and to the subtype 1 for on and 0 for off; when a brightness is
\* requested the decoded command carries it.
C35_ToolStateDecoded ==
    (parsed # None /\ args.command = ZIGBEE_CMD_STATE /\ Unsigned32(args.device_id)) =>
        /\ parsed.result # None
        /\ parsed.result.device_type = args.device_type
        /\ parsed.result.device_id = args.device_id
        /\ args.brightness = None =>
               parsed.result.cmd_type = PyInt(IF args.state THEN 1 ELSE 0)
        /\ args.brightness # None =>
               /\ "brightness" \in DOMAIN parsed.result
               /\ parsed.result.brightness = Clamp255(args.brightness)

(***************************************************************************)
(* The port after a start that failed                                      *)
(***************************************************************************)
\* the step is the return of a start, at once or after port discovery
StartReturns ==
    \/ quota'.start < quota.start /\ calls' = calls
    \/ \E c \in DOMAIN calls : calls[c].op = "start" /\ calls' = Remove(calls, c)

\* C36: a start that returns False leaves the configuration as it was: with
\* no port pinned before, none is pinned after, so that a later start runs
\* port discovery again.
C36_FailedStartPinsNothing ==
    [][(StartReturns /\ ret'.op = "start" /\ ret'.result = "False" /\ serial_port = NoText)
           => serial_port' = NoText]_vars

(***************************************************************************)
(* Lines of a command token, a class token and up to MaxFields numerals,   *)
(* each numeral written after a gap that may be empty, sent to a started   *)
(* coordinator                                                             *)
(***************************************************************************)
StateCapital == <<"S", "t", "a", "t", "e">>
Gaps == {<<>>, <<" ">>}
GapNumerals == {Num(1), Num(3), Num(4)}

RECURSIVE Glue(_)
Glue(fs) == IF fs = <<>> THEN <<>> ELSE Head(fs).gap \o Head(fs).digits \o Glue(Tail(fs))

\* the line of a: command token, class token and the numerals after their gaps
GapLine(a) == AT(a.command) \o Sp \o a.device_type \o Glue(a.fields) \o SERIAL_LINE_ENDING

InitGrammar ==
    /\ args \in [command : {ZIGBEE_CMD_STATE, StateCapital, ZIGBEE_CMD_ADD},
                 device_type : {ZIGBEE_DEVICE_BULB, SW},
                 fields : UNION {[1..n -> [gap : Gaps, digits : GapNumerals]] :
                                     n \in 0..MaxFields}]
    /\ built = GapLine(args)
    /\ parsed = None
    /\ wire = [bytes |-> GapLine(args), at |-> 0]
    /\ SERIAL_AVAILABLE = TRUE
    /\ serial_port = DevTtyUSB0
    /\ InitCoordinator
    /\ InitEmptyRegistry
    /\ quota = [ZeroQuota EXCEPT !.start = 1]

NextGrammar ==
    \/ Parse
    \/ StartCall
    \/ Arrive(Len(wire.bytes) - wire.at)
    \/ \E t \in DOMAIN tasks : LoopPoll(t)
    \/ \E t \in DOMAIN tasks : LoopResume(t)
    \/ HassRun

SpecGrammar == InitGrammar /\ [][NextGrammar]_vars

\* the result is one of the legacy grammar: it has the type code
Legacy(r) == "type" \in DOMAIN r

\* the last line reached the handler of a StateUpdate with an address
ReachedStateUpdate ==
    /\ event.res \in {"done", "raised"}
    /\ event.parsed.command = ZIGBEE_CMD_STATE
    /\ "device_id" \in DOMAIN event.parsed

\* C37: a result of parse_command for a state line that comes from the legacy
\* grammar has no address, and every StateUpdate that reaches the handler
\* with an address comes from the versioned grammar and has a subtype code.
C37_LegacyStateHasNoAddress ==
    /\ (Decoded /\ parsed.result.command = ZIGBEE_CMD_STATE /\ Legacy(parsed.result)) =>
           "device_id" \notin DOMAIN parsed.result
    /\ ReachedStateUpdate =>
           /\ ~Legacy(event.parsed)
           /\ "cmd_type" \in DOMAIN event.parsed

\* "$AT+state bulb 3 41" was decoded by the legacy grammar, without an
\* address, and discarded by the coordinator
C37_Witness ==
    /\ built = Dollar \o <<"s", "t", "a", "t", "e", " ", "b", "u", "l", "b", " ", "3",
                           " ", "4", "1", "\r", "\n">>
    /\ Decoded
    /\ Legacy(parsed.result)
    /\ parsed.result.command = ZIGBEE_CMD_STATE
    /\ "device_id" \notin DOMAIN parsed.result
    /\ event.res = "discarded"
    /\ event.parsed = parsed.result

====
